---------------------------- MODULE Spec2Model ----------------------------
(***************************************************************************)
(* Weapon pose and reload-animation pipeline of the ArUco shooting game    *)
(* (src/fps_game): QuaternionWeapon, ReloadAnimation, WeaponSystem,        *)
(* Estimate and the two threads of Game.                                   *)
(*                                                                         *)
(* Numbers.  The program computes in IEEE doubles; the model computes in   *)
(* scaled integers:                                                        *)
(*   lengths         in 1/LenScale   (0.4 is 400)                          *)
(*   sensitivities   in 1/SensScale  (0.3 is 30)                           *)
(*   angles          in degrees (the program's radians are converted),     *)
(*                   trigonometry by a table with a 15 degree step         *)
(*   sines, cosines and quaternion components in 1/TrigScale               *)
(*   time            in ticks of 0.2 s (reload_time 2.0 is 10)             *)
(***************************************************************************)
EXTENDS Integers, Sequences, FiniteSets, TLC

VARIABLES
    now,                \* the wall clock read by time.time(), in ticks of 0.2 s
    qw,                 \* Game.quaternion_weapon  (QuaternionWeapon)
    qw2,                \* a second QuaternionWeapon instance (pose specification only)
    ws,                 \* Game.weapon_system      (WeaponSystem)
    anim,               \* WeaponSystem.reload_animation (ReloadAnimation)
    phase_seen,         \* the last phase a caller got from get_current_phase
    update_call,        \* the animator and the clock before the last
                        \* reload_animation.update() of its caller, or <<>>
    aruco_data,         \* Game.aruco_data, the shared snapshot
    last_shoot_state,   \* Game.last_shoot_state
    last_reload_state,  \* Game.last_reload_state
    est,                \* Game.estimator         (Estimate)
    aruco_lock,         \* Game.aruco_lock: "free" or the thread holding it
    t_pc,               \* position of the tracking thread in aruco_detection_loop
    m_pc,               \* position of the main thread in Game.update
    current_aruco_data, \* the local current_aruco_data of Game.update
    last_published,     \* the geometry_data dict the tracking loop built last
    aruco_running,      \* Game.aruco_running
    returned,           \* the call of a query method or pure function the
                        \* last step made: its name, its arguments and the
                        \* value it returned; <<>> after any other step
    last_snapshot,      \* the gesture flags of the snapshot the last
                        \* Game.update read, <<>> before the first
    handoff             \* the two threads' handoff: unread, whether
                        \* Game.aruco_data is a published snapshot with
                        \* shooting set that the main loop has not copied;
                        \* lost, whether the last publication replaced such
                        \* a snapshot

vars ==
    <<now, qw, qw2, ws, anim, phase_seen, update_call, aruco_data,
      last_shoot_state, last_reload_state, last_snapshot, est, aruco_lock, t_pc, m_pc, current_aruco_data,
      last_published, handoff, aruco_running, returned>>

\* the variables of the two threads
ThreadVars ==
    <<est, aruco_lock, t_pc, m_pc, current_aruco_data, last_published, handoff, aruco_running>>

----------------------------------------------------------------------------
(* Scales and arithmetic helpers                                           *)

LenScale == 1000
SensScale == 100
TrigScale == 10000

Abs(a) == IF a < 0 THEN -a ELSE a

Min(a, b) == IF a < b THEN a ELSE b

Max(a, b) == IF a > b THEN a ELSE b

\* a / b rounded to the nearest integer (b > 0), as a double division
\* followed by the model's quantisation
Div(a, b) == IF a >= 0 THEN (2 * a + b) \div (2 * b)
                       ELSE -((2 * (-a) + b) \div (2 * b))

RECURSIVE SqrtIter(_, _, _)
SqrtIter(n, lo, hi) ==
    IF lo >= hi THEN lo
    ELSE LET mid == (lo + hi + 1) \div 2
         IN  IF mid * mid <= n THEN SqrtIter(n, mid, hi)
                               ELSE SqrtIter(n, lo, mid - 1)

\* floor of the square root (numpy.linalg.norm's sqrt), n < 2^31
Sqrt(n) == SqrtIter(n, 0, 46340)

\* cos of 0, 15, ..., 90 degrees, times TrigScale
CosTab == <<10000, 9659, 8660, 7071, 5000, 2588, 0>>

\* the table angle nearest to a (degrees)
QuantDeg(a) == 15 * Div(a, 15)

\* math.cos of an angle given in degrees, times TrigScale
CosDeg(a) ==
    LET m == QuantDeg(a) % 360
    IN  IF m <= 90 THEN CosTab[(m \div 15) + 1]
        ELSE IF m <= 180 THEN -CosTab[((180 - m) \div 15) + 1]
        ELSE IF m <= 270 THEN -CosTab[((m - 180) \div 15) + 1]
        ELSE CosTab[((360 - m) \div 15) + 1]

\* math.sin of an angle given in degrees, times TrigScale
SinDeg(a) == CosDeg(a - 90)

\* math.acos(c / TrigScale) for 0 <= c <= TrigScale, in degrees, to the
\* nearest table angle
AcosDeg(c) ==
    LET k == CHOOSE i \in 1..Len(CosTab) :
                 \A j \in 1..Len(CosTab) : Abs(CosTab[i] - c) <= Abs(CosTab[j] - c)
    IN  15 * (k - 1)

\* the angles math.atan2 can return in the model: (-180, 180] in steps of 30
AtanGrid == {30 * k : k \in -5..6}

\* math.atan2(y, x) in degrees, to the nearest angle of AtanGrid
\* (atan2(0, 0) is 0)
Atan2Deg(y, x) ==
    IF x = 0 /\ y = 0 THEN 0
    ELSE LET dot  == [a \in AtanGrid |-> x * CosDeg(a) + y * SinDeg(a)]
             best == {a \in AtanGrid : \A b \in AtanGrid : dot[a] >= dot[b]}
         IN  CHOOSE a \in best : \A b \in best : Abs(a) <= Abs(b) /\ (Abs(a) = Abs(b) => a >= b)

\* numpy.linalg.norm of a vector whose components are in one scale
Norm3(v) == Sqrt(v[1] * v[1] + v[2] * v[2] + v[3] * v[3])

Norm4(q) == Sqrt(q[1] * q[1] + q[2] * q[2] + q[3] * q[3] + q[4] * q[4])

VecAdd(a, b) == <<a[1] + b[1], a[2] + b[2], a[3] + b[3]>>

VecSub(a, b) == <<a[1] - b[1], a[2] - b[2], a[3] - b[3]>>

IdentityQuaternion == <<TrigScale, 0, 0, 0>>


----------------------------------------------------------------------------
(* QuaternionWeapon  (src/fps_game/src/weapons/cursor_weapon.py)           *)

camera_pos == <<0, 2 * LenScale, 5 * LenScale>>

base_weapon_offset == <<0, -400, -2000>>

default_distance_to_cam == 1500

target_distance == 20

\* dict.get(key, default)
Get(d, k, default) == IF k \in DOMAIN d THEN d[k] ELSE default

\* dict.update(other)
DictUpdate(d, other) ==
    [k \in (DOMAIN d) \cup (DOMAIN other) |-> IF k \in DOMAIN other THEN other[k] ELSE d[k]]

\* QuaternionWeapon.__init__
QuaternionWeaponInit ==
    [ weapon_offset        |-> base_weapon_offset,
      cursor_world_pos     |-> <<0, 0, -10 * LenScale>>,
      quaternion           |-> IdentityQuaternion,
      yaw_quaternion       |-> IdentityQuaternion,
      roll_quaternion      |-> IdentityQuaternion,
      yaw_angle            |-> 0,
      roll_angle           |-> 0,
      geometry_data        |-> [ position_offset   |-> 0,
                                 orientation_alpha |-> 0,
                                 degree            |-> 90,
                                 rotation_angle    |-> 0,
                                 distance_to_cam   |-> default_distance_to_cam,
                                 roll_offset       |-> 0 ],
      position_sensitivity |-> 5 * SensScale,
      distance_sensitivity |-> 30,
      roll_sensitivity     |-> SensScale ]

\* a faulty variant of update_full_aruco_data: the no-detection
\* substitution of the default distance is missing
update_full_aruco_data_NoFallback(w, full_data) ==
    LET position_offset   == Get(full_data, "position_offset", 0)
        orientation_alpha == Get(full_data, "orientation_alpha", 0)
        rotation_angle    == Get(full_data, "rotation_angle", 0)
        distance_to_cam   == Get(full_data, "distance_to_cam", default_distance_to_cam)
        roll_offset       == Get(full_data, "roll_offset", 0)
        distance_offset   == Div((distance_to_cam - default_distance_to_cam) * w.distance_sensitivity, SensScale)
        offset == <<base_weapon_offset[1] + Div(position_offset * w.position_sensitivity, SensScale),
                    base_weapon_offset[2],
                    base_weapon_offset[3] + (distance_offset * 10) + 3 * LenScale>>
        yaw    == orientation_alpha
        roll   == -Div((rotation_angle + roll_offset) * w.roll_sensitivity, SensScale)
        weapon_world_pos == VecAdd(camera_pos, offset)
    IN  [w EXCEPT !.geometry_data    = DictUpdate(w.geometry_data, full_data),
                  !.weapon_offset    = offset,
                  !.yaw_angle        = yaw,
                  !.roll_angle       = roll,
                  !.cursor_world_pos =
                      <<weapon_world_pos[1] + Div(CosDeg(yaw) * target_distance * LenScale, TrigScale),
                        weapon_world_pos[2],
                        weapon_world_pos[3] - Div(SinDeg(yaw) * target_distance * LenScale, TrigScale)>>]

\* a faulty variant of update_full_aruco_data: the z offset as the
\* specification words it, without the factor 10 and the added 3
update_full_aruco_data_PlainZ(w, full_data) ==
    LET position_offset   == Get(full_data, "position_offset", 0)
        orientation_alpha == Get(full_data, "orientation_alpha", 0)
        rotation_angle    == Get(full_data, "rotation_angle", 0)
        given_distance    == Get(full_data, "distance_to_cam", default_distance_to_cam)
        roll_offset       == Get(full_data, "roll_offset", 0)
        distance_to_cam   == IF given_distance <= 10 THEN default_distance_to_cam ELSE given_distance
        distance_offset   == Div((distance_to_cam - default_distance_to_cam) * w.distance_sensitivity, SensScale)
        offset == <<base_weapon_offset[1] + Div(position_offset * w.position_sensitivity, SensScale),
                    base_weapon_offset[2],
                    base_weapon_offset[3] + distance_offset>>
        yaw    == orientation_alpha
        roll   == -Div((rotation_angle + roll_offset) * w.roll_sensitivity, SensScale)
        weapon_world_pos == VecAdd(camera_pos, offset)
    IN  [w EXCEPT !.geometry_data    = DictUpdate(w.geometry_data, full_data),
                  !.weapon_offset    = offset,
                  !.yaw_angle        = yaw,
                  !.roll_angle       = roll,
                  !.cursor_world_pos =
                      <<weapon_world_pos[1] + Div(CosDeg(yaw) * target_distance * LenScale, TrigScale),
                        weapon_world_pos[2],
                        weapon_world_pos[3] - Div(SinDeg(yaw) * target_distance * LenScale, TrigScale)>>]

\* a faulty variant of update_full_aruco_data: the aim target is placed
\* from the previous aim target, not from the weapon's position
update_full_aruco_data_FromOldTarget(w, full_data) ==
    LET position_offset   == Get(full_data, "position_offset", 0)
        orientation_alpha == Get(full_data, "orientation_alpha", 0)
        rotation_angle    == Get(full_data, "rotation_angle", 0)
        given_distance    == Get(full_data, "distance_to_cam", default_distance_to_cam)
        roll_offset       == Get(full_data, "roll_offset", 0)
        distance_to_cam   == IF given_distance <= 10 THEN default_distance_to_cam ELSE given_distance
        distance_offset   == Div((distance_to_cam - default_distance_to_cam) * w.distance_sensitivity, SensScale)
        offset == <<base_weapon_offset[1] + Div(position_offset * w.position_sensitivity, SensScale),
                    base_weapon_offset[2],
                    base_weapon_offset[3] + (distance_offset * 10) + 3 * LenScale>>
        yaw    == orientation_alpha
        roll   == -Div((rotation_angle + roll_offset) * w.roll_sensitivity, SensScale)
    IN  [w EXCEPT !.geometry_data    = DictUpdate(w.geometry_data, full_data),
                  !.weapon_offset    = offset,
                  !.yaw_angle        = yaw,
                  !.roll_angle       = roll,
                  !.cursor_world_pos =
                      <<w.cursor_world_pos[1] + Div(CosDeg(yaw) * target_distance * LenScale, TrigScale),
                        w.cursor_world_pos[2],
                        w.cursor_world_pos[3] - Div(SinDeg(yaw) * target_distance * LenScale, TrigScale)>>]

\* QuaternionWeapon.update_full_aruco_data(full_data): the weapon after it
update_full_aruco_data(w, full_data) ==
    LET position_offset   == Get(full_data, "position_offset", 0)
        orientation_alpha == Get(full_data, "orientation_alpha", 0)
        rotation_angle    == Get(full_data, "rotation_angle", 0)
        given_distance    == Get(full_data, "distance_to_cam", default_distance_to_cam)
        roll_offset       == Get(full_data, "roll_offset", 0)
        \* if distance_to_cam <= 0.01: distance_to_cam = default
        distance_to_cam   == IF given_distance <= 10 THEN default_distance_to_cam ELSE given_distance
        distance_offset   == Div((distance_to_cam - default_distance_to_cam) * w.distance_sensitivity, SensScale)
        offset == <<base_weapon_offset[1] + Div(position_offset * w.position_sensitivity, SensScale),
                    base_weapon_offset[2],
                    base_weapon_offset[3] + (distance_offset * 10) + 3 * LenScale>>
        yaw    == orientation_alpha
        roll   == -Div((rotation_angle + roll_offset) * w.roll_sensitivity, SensScale)
        weapon_world_pos == VecAdd(camera_pos, offset)
    IN  [w EXCEPT !.geometry_data    = DictUpdate(w.geometry_data, full_data),
                  !.weapon_offset    = offset,
                  !.yaw_angle        = yaw,
                  !.roll_angle       = roll,
                  !.cursor_world_pos =
                      <<weapon_world_pos[1] + Div(CosDeg(yaw) * target_distance * LenScale, TrigScale),
                        weapon_world_pos[2],
                        weapon_world_pos[3] - Div(SinDeg(yaw) * target_distance * LenScale, TrigScale)>>]

\* QuaternionWeapon.multiply_quaternions(q1, q2)
multiply_quaternions(q1, q2) ==
    <<Div(q1[1]*q2[1] - q1[2]*q2[2] - q1[3]*q2[3] - q1[4]*q2[4], TrigScale),
      Div(q1[1]*q2[2] + q1[2]*q2[1] + q1[3]*q2[4] - q1[4]*q2[3], TrigScale),
      Div(q1[1]*q2[3] - q1[2]*q2[4] + q1[3]*q2[1] + q1[4]*q2[2], TrigScale),
      Div(q1[1]*q2[4] + q1[2]*q2[3] - q1[3]*q2[2] + q1[4]*q2[1], TrigScale)>>

\* a faulty variant of the normalisation: the norm is taken of the vector
\* part (x, y, z) only
NormalizeQuaternion_VectorPart(q) ==
    LET quat_norm == Norm3(<<q[2], q[3], q[4]>>)
    IN  IF quat_norm > 0
        THEN <<Div(q[1] * TrigScale, quat_norm), Div(q[2] * TrigScale, quat_norm),
               Div(q[3] * TrigScale, quat_norm), Div(q[4] * TrigScale, quat_norm)>>
        ELSE q

\* q / numpy.linalg.norm(q), left alone when the norm is 0
NormalizeQuaternion(q) ==
    LET quat_norm == Norm4(q)
    IN  IF quat_norm > 0
        THEN <<Div(q[1] * TrigScale, quat_norm), Div(q[2] * TrigScale, quat_norm),
               Div(q[3] * TrigScale, quat_norm), Div(q[4] * TrigScale, quat_norm)>>
        ELSE q

\* QuaternionWeapon.calculate_weapon_orientation(): the weapon after it
calculate_weapon_orientation(w) ==
    LET weapon_pos     == VecAdd(camera_pos, w.weapon_offset)
        direction      == VecSub(w.cursor_world_pos, weapon_pos)
        direction_norm == Norm3(direction)
        unit == <<Div(direction[1] * TrigScale, direction_norm),
                  Div(direction[2] * TrigScale, direction_norm),
                  Div(direction[3] * TrigScale, direction_norm)>>
        xz_norm == Norm3(<<unit[1], 0, unit[3]>>)
        xz == <<Div(unit[1] * TrigScale, xz_norm), 0, Div(unit[3] * TrigScale, xz_norm)>>
        yaw == Atan2Deg(-xz[1], -xz[3])
        \* xz_norm > 0.001
        yaw_q == IF xz_norm * LenScale > TrigScale
                 THEN <<CosDeg(yaw \div 2), 0, SinDeg(yaw \div 2), 0>>
                 ELSE IdentityQuaternion
        roll_q == <<CosDeg(w.roll_angle \div 2), 0, 0, SinDeg(w.roll_angle \div 2)>>
    IN  \* direction_norm < 0.001
        IF direction_norm < 1
        THEN [w EXCEPT !.quaternion      = IdentityQuaternion,
                       !.yaw_quaternion  = IdentityQuaternion,
                       !.roll_quaternion = IdentityQuaternion]
        ELSE [w EXCEPT !.yaw_quaternion  = yaw_q,
                       !.roll_quaternion = roll_q,
                       !.quaternion      = NormalizeQuaternion(multiply_quaternions(yaw_q, roll_q))]


\* QuaternionWeapon.calibrate_position_sensitivity(sensitivity), in
\* 1/SensScale
calibrate_position_sensitivity(w, sensitivity) ==
    [w EXCEPT !.position_sensitivity = Max(SensScale \div 10, sensitivity)]

\* a faulty variant of the calibration: the argument is stored as it comes
calibrate_distance_sensitivity_NoFloor(w, sensitivity) ==
    [w EXCEPT !.distance_sensitivity = sensitivity]

\* QuaternionWeapon.calibrate_distance_sensitivity(sensitivity)
calibrate_distance_sensitivity(w, sensitivity) ==
    [w EXCEPT !.distance_sensitivity = Max(SensScale \div 100, sensitivity)]

\* QuaternionWeapon.calibrate_roll_sensitivity(sensitivity)
calibrate_roll_sensitivity(w, sensitivity) ==
    [w EXCEPT !.roll_sensitivity = Max(SensScale \div 10, sensitivity)]

----------------------------------------------------------------------------
(* ReloadAnimation  (src/fps_game/src/animations/reload.py)                *)

\* reload_time = 2.0 s, the duration handed to ReloadAnimation
ReloadTime == 10

\* None, for a quaternion not yet set
NoneQ == <<>>

\* progress 1.0
ProgressScale == 10000

\* the phases in the order phase_durations lists them
Phases ==
    <<"transition_to_center", "reach_in", "contact", "pull_back",
      "release", "retract", "transition_to_cursor">>

\* phase_durations, in 1/ProgressScale
phase_durations == <<1500, 2000, 1000, 1500, 1000, 1500, 1500>>

\* cumulative + duration in doubles.  All the sums of __init__ are exact to
\* the model's resolution but 0.35 + 0.10, which is 0.44999999999999996:
\* the model keeps it one unit below 0.45.  That sum + 0.15 is 0.6 again.
FloatAdd(cumulative, duration) ==
    IF cumulative = 3500 /\ duration = 1000 THEN 4499
    ELSE IF cumulative = 4499 /\ duration = 1500 THEN 6000
    ELSE cumulative + duration

RECURSIVE Cumulative(_)
\* the value of `cumulative` after the first k phases
Cumulative(k) == IF k = 0 THEN 0 ELSE FloatAdd(Cumulative(k - 1), phase_durations[k])

\* phase_times, by the index of the phase
phase_times == [k \in 1..Len(Phases) |-> [start |-> Cumulative(k - 1), end |-> Cumulative(k)]]

PhaseIndex(phase) == CHOOSE k \in 1..Len(Phases) : Phases[k] = phase

\* ReloadAnimation.__init__(duration)
ReloadAnimationInit(duration) ==
    [ duration            |-> duration,
      is_active           |-> FALSE,
      start_time          |-> 0,
      original_quaternion |-> NoneQ,
      target_quaternion   |-> NoneQ ]

\* ReloadAnimation.start_animation(current_quaternion), time.time() = t
start_animation(a, current_quaternion, t) ==
    [a EXCEPT !.is_active           = TRUE,
              !.start_time          = t,
              !.original_quaternion = current_quaternion,
              !.target_quaternion   = IdentityQuaternion]

\* a faulty variant of ReloadAnimation.update: the animation outlives its
\* duration by the instant elapsed = duration
ReloadAnimation_update_Late(a, t) ==
    IF ~a.is_active THEN a
    ELSE IF t - a.start_time > a.duration THEN [a EXCEPT !.is_active = FALSE]
    ELSE a

\* ReloadAnimation.update(), time.time() = t
ReloadAnimation_update(a, t) ==
    IF ~a.is_active THEN a
    ELSE IF t - a.start_time >= a.duration THEN [a EXCEPT !.is_active = FALSE]
    ELSE a

\* ReloadAnimation.get_progress(), time.time() = t
get_progress(a, t) ==
    IF ~a.is_active THEN ProgressScale
    ELSE Min(Div((t - a.start_time) * ProgressScale, a.duration), ProgressScale)

\* a faulty variant of the phase lookup: the interval test excludes the
\* boundaries
PhaseOfProgress_Strict(progress) ==
    LET hits == {k \in 1..Len(Phases) :
                    phase_times[k].start < progress /\ progress < phase_times[k].end}
    IN  IF hits # {} THEN Phases[CHOOSE k \in hits : \A j \in hits : k <= j]
        ELSE "transition_to_cursor"

\* the loop of get_current_phase: the first phase of phase_times, in
\* insertion order, whose interval holds the progress, and
\* transition_to_cursor when none does
PhaseOfProgress(progress) ==
    LET hits == {k \in 1..Len(Phases) :
                    phase_times[k].start <= progress /\ progress <= phase_times[k].end}
    IN  IF hits # {} THEN Phases[CHOOSE k \in hits : \A j \in hits : k <= j]
        ELSE "transition_to_cursor"

\* ReloadAnimation.get_current_phase(), time.time() = t
get_current_phase(a, t) ==
    IF ~a.is_active THEN "None" ELSE PhaseOfProgress(get_progress(a, t))


\* ReloadAnimation.get_phase_progress(phase), time.time() = t, in
\* 1/ProgressScale
get_phase_progress(a, phase, t) ==
    LET overall_progress == get_progress(a, t)
        phase_info       == phase_times[PhaseIndex(phase)]
        phase_duration   == phase_info.end - phase_info.start
        phase_elapsed    == overall_progress - phase_info.start
    IN  IF overall_progress < phase_info.start THEN 0
        ELSE IF overall_progress > phase_info.end THEN ProgressScale
        ELSE IF phase_duration > 0 THEN Div(phase_elapsed * ProgressScale, phase_duration)
        ELSE ProgressScale

\* ReloadAnimation._ease_in_out(t) = t * t * (3 - 2 t), t in 1/ProgressScale
ease_in_out(t) ==
    Div(Div(t * t, ProgressScale) * (3 * ProgressScale - 2 * t), ProgressScale)

\* q * k / d, component by component
Scale4(q, k, d) == <<Div(q[1] * k, d), Div(q[2] * k, d), Div(q[3] * k, d), Div(q[4] * k, d)>>

\* numpy.dot of two quaternions, times TrigScale
Dot4(p, q) == Div(p[1] * q[1] + p[2] * q[2] + p[3] * q[3] + p[4] * q[4], TrigScale)

\* a faulty variant of the interpolation: q2 is negated when the dot product
\* is negative but the dot product keeps its sign
slerp_quaternions_StaleDot(q1, q2, t) ==
    LET a1      == Scale4(q1, TrigScale, Norm4(q1))
        n2      == Scale4(q2, TrigScale, Norm4(q2))
        dot0    == Dot4(a1, n2)
        a2      == IF dot0 < 0 THEN <<-n2[1], -n2[2], -n2[3], -n2[4]>> ELSE n2
        dot     == dot0
        mix     == <<a1[1] + Div(t * (a2[1] - a1[1]), ProgressScale),
                     a1[2] + Div(t * (a2[2] - a1[2]), ProgressScale),
                     a1[3] + Div(t * (a2[3] - a1[3]), ProgressScale),
                     a1[4] + Div(t * (a2[4] - a1[4]), ProgressScale)>>
        theta_0 == AcosDeg(Abs(dot))
        theta   == Div(theta_0 * t, ProgressScale)
        raw     == <<a2[1] - Div(a1[1] * dot, TrigScale), a2[2] - Div(a1[2] * dot, TrigScale),
                     a2[3] - Div(a1[3] * dot, TrigScale), a2[4] - Div(a1[4] * dot, TrigScale)>>
        q2_orth == Scale4(raw, TrigScale, Norm4(raw))
    IN  IF 10000 * dot > 9995 * TrigScale
        THEN Scale4(mix, TrigScale, Norm4(mix))
        ELSE <<Div(a1[1] * CosDeg(theta) + q2_orth[1] * SinDeg(theta), TrigScale),
               Div(a1[2] * CosDeg(theta) + q2_orth[2] * SinDeg(theta), TrigScale),
               Div(a1[3] * CosDeg(theta) + q2_orth[3] * SinDeg(theta), TrigScale),
               Div(a1[4] * CosDeg(theta) + q2_orth[4] * SinDeg(theta), TrigScale)>>

\* ReloadAnimation._slerp_quaternions(q1, q2, t), t in 1/ProgressScale.
\* The angle theta_0 * t is taken to the nearest angle of the cosine table.
slerp_quaternions(q1, q2, t) ==
    LET a1      == Scale4(q1, TrigScale, Norm4(q1))
        n2      == Scale4(q2, TrigScale, Norm4(q2))
        dot0    == Dot4(a1, n2)
        a2      == IF dot0 < 0 THEN <<-n2[1], -n2[2], -n2[3], -n2[4]>> ELSE n2
        dot     == IF dot0 < 0 THEN -dot0 ELSE dot0
        mix     == <<a1[1] + Div(t * (a2[1] - a1[1]), ProgressScale),
                     a1[2] + Div(t * (a2[2] - a1[2]), ProgressScale),
                     a1[3] + Div(t * (a2[3] - a1[3]), ProgressScale),
                     a1[4] + Div(t * (a2[4] - a1[4]), ProgressScale)>>
        theta_0 == AcosDeg(Abs(dot))
        theta   == Div(theta_0 * t, ProgressScale)
        raw     == <<a2[1] - Div(a1[1] * dot, TrigScale), a2[2] - Div(a1[2] * dot, TrigScale),
                     a2[3] - Div(a1[3] * dot, TrigScale), a2[4] - Div(a1[4] * dot, TrigScale)>>
        q2_orth == Scale4(raw, TrigScale, Norm4(raw))
    IN  IF 10000 * dot > 9995 * TrigScale
        THEN Scale4(mix, TrigScale, Norm4(mix))
        ELSE <<Div(a1[1] * CosDeg(theta) + q2_orth[1] * SinDeg(theta), TrigScale),
               Div(a1[2] * CosDeg(theta) + q2_orth[2] * SinDeg(theta), TrigScale),
               Div(a1[3] * CosDeg(theta) + q2_orth[3] * SinDeg(theta), TrigScale),
               Div(a1[4] * CosDeg(theta) + q2_orth[4] * SinDeg(theta), TrigScale)>>

\* a faulty variant of the transition: the middle phases keep following the
\* quaternion the caller passes in
get_weapon_transition_quaternion_Follow(a, current_quaternion, t) ==
    LET overall_progress == get_progress(a, t)
    IN  IF ~a.is_active THEN current_quaternion
        ELSE IF overall_progress <= phase_times[PhaseIndex("transition_to_center")].end
        THEN slerp_quaternions(a.original_quaternion, a.target_quaternion,
                 ease_in_out(get_phase_progress(a, "transition_to_center", t)))
        ELSE IF overall_progress <= phase_times[PhaseIndex("retract")].end
        THEN current_quaternion
        ELSE slerp_quaternions(a.target_quaternion, a.original_quaternion,
                 ease_in_out(get_phase_progress(a, "transition_to_cursor", t)))

\* a faulty variant of the transition: the way back is interpolated in the
\* direction of the way in
get_weapon_transition_quaternion_OneWay(a, current_quaternion, t) ==
    LET overall_progress == get_progress(a, t)
    IN  IF ~a.is_active THEN current_quaternion
        ELSE IF overall_progress <= phase_times[PhaseIndex("transition_to_center")].end
        THEN slerp_quaternions(a.original_quaternion, a.target_quaternion,
                 ease_in_out(get_phase_progress(a, "transition_to_center", t)))
        ELSE IF overall_progress <= phase_times[PhaseIndex("retract")].end
        THEN a.target_quaternion
        ELSE slerp_quaternions(a.original_quaternion, a.target_quaternion,
                 ease_in_out(get_phase_progress(a, "transition_to_cursor", t)))

\* ReloadAnimation.get_weapon_transition_quaternion(current_quaternion),
\* every time.time() it reads = t
get_weapon_transition_quaternion(a, current_quaternion, t) ==
    LET overall_progress == get_progress(a, t)
    IN  IF ~a.is_active THEN current_quaternion
        ELSE IF overall_progress <= phase_times[PhaseIndex("transition_to_center")].end
        THEN slerp_quaternions(a.original_quaternion, a.target_quaternion,
                 ease_in_out(get_phase_progress(a, "transition_to_center", t)))
        ELSE IF overall_progress <= phase_times[PhaseIndex("retract")].end
        THEN a.target_quaternion
        ELSE slerp_quaternions(a.target_quaternion, a.original_quaternion,
                 ease_in_out(get_phase_progress(a, "transition_to_cursor", t)))


\* None, for a position not there
NoneV == <<>>

\* None, for the arm not there
NoneArm == [phase |-> "None"]

\* upper_arm_length, forearm_length, in 1/LenScale
upper_arm_length == 1500

forearm_length == 1400

\* total_reach = upper_arm_length + forearm_length
total_reach == upper_arm_length + forearm_length

\* shoulder_offset, in 1/LenScale
shoulder_offset == <<-2200, -1500, -300>>

\* start + (end - start) * eased_progress
Lerp3(start, end, eased_progress) ==
    <<start[1] + Div((end[1] - start[1]) * eased_progress, ProgressScale),
      start[2] + Div((end[2] - start[2]) * eased_progress, ProgressScale),
      start[3] + Div((end[3] - start[3]) * eased_progress, ProgressScale)>>

\* a faulty variant of the hand target: the retract phase has no branch
get_target_hand_position_NoRetract(a, weapon_position, ts, i) ==
    LET current_phase  == get_current_phase(a, ts[i])
        gun_reload_pos == VecAdd(weapon_position, <<0, 400, 100>>)
        eased_progress == ease_in_out(get_phase_progress(a, current_phase, ts[i + 1]))
    IN  IF current_phase = "None" THEN NoneV
        ELSE IF current_phase = "reach_in"
        THEN Lerp3(VecAdd(weapon_position, <<-1800, -300, -800>>),
                   VecAdd(gun_reload_pos, <<150, 0, 0>>), eased_progress)
        ELSE IF current_phase = "contact"
        THEN Lerp3(VecAdd(gun_reload_pos, <<150, 0, 0>>), gun_reload_pos, eased_progress)
        ELSE IF current_phase = "pull_back"
        THEN Lerp3(gun_reload_pos, VecAdd(gun_reload_pos, <<-250, 0, 0>>), eased_progress)
        ELSE IF current_phase = "release"
        THEN Lerp3(VecAdd(gun_reload_pos, <<-250, 0, 0>>),
                   VecAdd(gun_reload_pos, <<100, 0, 0>>), eased_progress)
        ELSE NoneV

\* a faulty variant of hand_anchors: the slide is released to the approach
\* position
hand_anchors_ReleaseToApproach(current_phase, weapon_position) ==
    LET gun_reload_pos == VecAdd(weapon_position, <<0, 400, 100>>)
    IN  IF current_phase = "reach_in"
        THEN <<VecAdd(weapon_position, <<-1800, -300, -800>>),
               VecAdd(gun_reload_pos, <<150, 0, 0>>)>>
        ELSE IF current_phase = "contact"
        THEN <<VecAdd(gun_reload_pos, <<150, 0, 0>>), gun_reload_pos>>
        ELSE IF current_phase = "pull_back"
        THEN <<gun_reload_pos, VecAdd(gun_reload_pos, <<-250, 0, 0>>)>>
        ELSE IF current_phase = "release"
        THEN <<VecAdd(gun_reload_pos, <<-250, 0, 0>>), VecAdd(gun_reload_pos, <<150, 0, 0>>)>>
        ELSE IF current_phase = "retract"
        THEN <<VecAdd(gun_reload_pos, <<100, 0, 0>>),
               VecAdd(weapon_position, <<-2200, -500, -1200>>)>>
        ELSE NoneV

\* ReloadAnimation.get_target_hand_position, the two positions a phase's
\* branch interpolates between: where the hand is at phase progress 0 and
\* at phase progress 1; NoneV for a phase without a branch
hand_anchors(current_phase, weapon_position) ==
    LET gun_reload_pos == VecAdd(weapon_position, <<0, 400, 100>>)
    IN  IF current_phase = "reach_in"
        THEN <<VecAdd(weapon_position, <<-1800, -300, -800>>),
               VecAdd(gun_reload_pos, <<150, 0, 0>>)>>
        ELSE IF current_phase = "contact"
        THEN <<VecAdd(gun_reload_pos, <<150, 0, 0>>), gun_reload_pos>>
        ELSE IF current_phase = "pull_back"
        THEN <<gun_reload_pos, VecAdd(gun_reload_pos, <<-250, 0, 0>>)>>
        ELSE IF current_phase = "release"
        THEN <<VecAdd(gun_reload_pos, <<-250, 0, 0>>), VecAdd(gun_reload_pos, <<100, 0, 0>>)>>
        ELSE IF current_phase = "retract"
        THEN <<VecAdd(gun_reload_pos, <<100, 0, 0>>),
               VecAdd(weapon_position, <<-2200, -500, -1200>>)>>
        ELSE NoneV

\* ReloadAnimation.get_target_hand_position(weapon_position): ts[i] is the
\* clock get_current_phase reads, ts[i + 1] the one get_phase_progress reads
get_target_hand_position(a, weapon_position, ts, i) ==
    LET current_phase  == get_current_phase(a, ts[i])
        anchors        == hand_anchors(current_phase, weapon_position)
        eased_progress == ease_in_out(get_phase_progress(a, current_phase, ts[i + 1]))
    IN  IF current_phase = "None" THEN NoneV
        ELSE IF anchors = NoneV THEN NoneV
        ELSE Lerp3(anchors[1], anchors[2], eased_progress)

\* the square of numpy.linalg.norm(v)
NormSq3(v) == v[1] * v[1] + v[2] * v[2] + v[3] * v[3]

\* numpy.cross of two vectors in 1/TrigScale
Cross(a, b) ==
    <<Div(a[2] * b[3] - a[3] * b[2], TrigScale),
      Div(a[3] * b[1] - a[1] * b[3], TrigScale),
      Div(a[1] * b[2] - a[2] * b[1], TrigScale)>>

\* v / numpy.linalg.norm(v), in 1/TrigScale
Unit3(v) ==
    <<Div(v[1] * TrigScale, Norm3(v)), Div(v[2] * TrigScale, Norm3(v)),
      Div(v[3] * TrigScale, Norm3(v))>>

\* p + direction * length, direction in 1/TrigScale
Along(p, direction, length) ==
    <<p[1] + Div(direction[1] * length, TrigScale),
      p[2] + Div(direction[2] * length, TrigScale),
      p[3] + Div(direction[3] * length, TrigScale)>>

\* a faulty variant of the solver: a target at the full reach counts as too
\* far
solve_ik_ReachExcluded(shoulder_pos, target_pos) ==
    LET to_target      == VecSub(target_pos, shoulder_pos)
        distance       == Norm3(to_target)
        distance_sq    == NormSq3(to_target)
        fold           == upper_arm_length - forearm_length
        l1_sq          == upper_arm_length * upper_arm_length
        l2_sq          == forearm_length * forearm_length
        direction      == Unit3(to_target)
        close_dir      == <<Div(to_target[1] * TrigScale, Max(distance, 1)),
                            Div(to_target[2] * TrigScale, Max(distance, 1)),
                            Div(to_target[3] * TrigScale, Max(distance, 1))>>
        cos_shoulder   == Max(-TrigScale, Min(TrigScale,
                              Div((l1_sq + distance_sq - l2_sq) * 10,
                                  Div(2 * upper_arm_length * distance, LenScale))))
        shoulder_angle == AcosDeg(Abs(cos_shoulder))
        cross_up       == Cross(direction, <<0, TrigScale, 0>>)
        side_vector    == IF Norm3(cross_up) * 10 < TrigScale THEN <<TrigScale, 0, 0>>
                          ELSE Unit3(cross_up)
        elbow_offset   == Unit3(Cross(side_vector, direction))
        base_elbow     == Along(shoulder_pos, direction,
                                Div(upper_arm_length * CosDeg(shoulder_angle), TrigScale))
        elbow_height   == Div(upper_arm_length * SinDeg(shoulder_angle), TrigScale)
    IN  IF distance_sq >= total_reach * total_reach
        THEN [ elbow_pos   |-> Along(shoulder_pos, direction, upper_arm_length),
               wrist_pos   |-> Along(shoulder_pos, direction, total_reach),
               is_at_limit |-> TRUE ]
        ELSE IF distance_sq <= fold * fold
        THEN [ elbow_pos   |-> Along(shoulder_pos, close_dir, upper_arm_length),
               wrist_pos   |-> target_pos,
               is_at_limit |-> TRUE ]
        ELSE [ elbow_pos   |-> Along(base_elbow, elbow_offset, elbow_height),
               wrist_pos   |-> target_pos,
               is_at_limit |-> FALSE ]

\* ReloadAnimation.solve_ik(shoulder_pos, target_pos), positions in
\* 1/LenScale.  The two comparisons of the distance are made on the
\* squares, where they are exact: total_reach is the double 2.9 itself, so
\* a distance of 2.9 is not greater, and abs(1.5 - 1.4) is
\* 0.10000000000000009, so a distance of 0.1 is smaller.
solve_ik(shoulder_pos, target_pos) ==
    LET to_target      == VecSub(target_pos, shoulder_pos)
        distance       == Norm3(to_target)
        distance_sq    == NormSq3(to_target)
        fold           == upper_arm_length - forearm_length
        l1_sq          == upper_arm_length * upper_arm_length
        l2_sq          == forearm_length * forearm_length
        direction      == Unit3(to_target)
        close_dir      == <<Div(to_target[1] * TrigScale, Max(distance, 1)),
                            Div(to_target[2] * TrigScale, Max(distance, 1)),
                            Div(to_target[3] * TrigScale, Max(distance, 1))>>
        cos_shoulder   == Max(-TrigScale, Min(TrigScale,
                              Div((l1_sq + distance_sq - l2_sq) * 10,
                                  Div(2 * upper_arm_length * distance, LenScale))))
        shoulder_angle == AcosDeg(Abs(cos_shoulder))
        cross_up       == Cross(direction, <<0, TrigScale, 0>>)
        side_vector    == IF Norm3(cross_up) * 10 < TrigScale THEN <<TrigScale, 0, 0>>
                          ELSE Unit3(cross_up)
        elbow_offset   == Unit3(Cross(side_vector, direction))
        base_elbow     == Along(shoulder_pos, direction,
                                Div(upper_arm_length * CosDeg(shoulder_angle), TrigScale))
        elbow_height   == Div(upper_arm_length * SinDeg(shoulder_angle), TrigScale)
    IN  IF distance_sq > total_reach * total_reach
        THEN [ elbow_pos   |-> Along(shoulder_pos, direction, upper_arm_length),
               wrist_pos   |-> Along(shoulder_pos, direction, total_reach),
               is_at_limit |-> TRUE ]
        ELSE IF distance_sq <= fold * fold
        THEN [ elbow_pos   |-> Along(shoulder_pos, close_dir, upper_arm_length),
               wrist_pos   |-> target_pos,
               is_at_limit |-> TRUE ]
        ELSE [ elbow_pos   |-> Along(base_elbow, elbow_offset, elbow_height),
               wrist_pos   |-> target_pos,
               is_at_limit |-> FALSE ]

\* ReloadAnimation.get_arm_segments(weapon_position): ts[i] is the clock its
\* own get_current_phase reads, ts[i + 1] and ts[i + 2] the ones
\* get_target_hand_position reads
get_arm_segments(a, weapon_position, ts, i) ==
    LET current_phase == get_current_phase(a, ts[i])
        shoulder_pos  == VecAdd(weapon_position, shoulder_offset)
        target_pos    == get_target_hand_position(a, weapon_position, ts, i + 1)
        ik            == solve_ik(shoulder_pos, target_pos)
    IN  IF ~a.is_active THEN NoneArm
        ELSE IF current_phase \in {"transition_to_center", "transition_to_cursor"} THEN NoneArm
        ELSE IF target_pos = NoneV THEN NoneArm
        ELSE [ shoulder_pos     |-> shoulder_pos,
               elbow_pos        |-> ik.elbow_pos,
               wrist_pos        |-> ik.wrist_pos,
               upper_arm_length |-> upper_arm_length,
               forearm_length   |-> forearm_length,
               is_at_limit      |-> ik.is_at_limit,
               phase            |-> current_phase ]

----------------------------------------------------------------------------
(* WeaponSystem  (src/fps_game/src/weapons/weapon_system.py) and shoot     *)
(* (src/fps_game/src/weapons/weapon.py).  A method that reads the clock    *)
(* takes ts, the values time.time() returns during the handler that calls  *)
(* it, and the index i of its first read.  Each returns the weapon system, *)
(* its reload animation and the method's result.                           *)

\* fire_rate = 0.2 s
FireRate == 1

\* WeaponSystem.__init__(max_ammo, reload_time)
WeaponSystemInit(max_ammo, reload_time) ==
    [ max_ammo          |-> max_ammo,
      current_ammo      |-> max_ammo,
      reload_time       |-> reload_time,
      is_reloading      |-> FALSE,
      reload_start_time |-> 0,
      last_shot_time    |-> 0,
      fire_rate         |-> FireRate ]

\* a faulty variant of can_shoot: the fire rate is not looked at
can_shoot_NoFireRate(w, t) ==
    /\ ~w.is_reloading
    /\ w.current_ammo > 0

\* WeaponSystem.can_shoot(), time.time() = t
can_shoot(w, t) ==
    /\ ~w.is_reloading
    /\ w.current_ammo > 0
    /\ t - w.last_shot_time >= w.fire_rate

\* a faulty variant of start_reload: a reload in progress is started again
start_reload_Restart(w, a, current_quaternion, ts, i) ==
    IF w.current_ammo = w.max_ammo
    THEN [ws |-> w, anim |-> a, result |-> FALSE]
    ELSE [ws     |-> [w EXCEPT !.is_reloading = TRUE, !.reload_start_time = ts[i]],
          anim   |-> start_animation(a,
                         IF current_quaternion # NoneQ THEN current_quaternion
                                                       ELSE IdentityQuaternion,
                         ts[i + 1]),
          result |-> TRUE]

\* WeaponSystem.start_reload(current_quaternion); reads ts[i], ts[i+1]
start_reload(w, a, current_quaternion, ts, i) ==
    IF w.is_reloading \/ w.current_ammo = w.max_ammo
    THEN [ws |-> w, anim |-> a, result |-> FALSE]
    ELSE [ws     |-> [w EXCEPT !.is_reloading = TRUE, !.reload_start_time = ts[i]],
          anim   |-> start_animation(a,
                         IF current_quaternion # NoneQ THEN current_quaternion
                                                       ELSE IdentityQuaternion,
                         ts[i + 1]),
          result |-> TRUE]

\* WeaponSystem.force_reload(current_quaternion)
force_reload(w, a, current_quaternion, ts, i) == start_reload(w, a, current_quaternion, ts, i)

\* a faulty variant of WeaponSystem_shoot: the last round starts no reload
WeaponSystem_shoot_NoAutoReload(w, a, ts, i) ==
    IF ~can_shoot(w, ts[i]) THEN [ws |-> w, anim |-> a, result |-> FALSE]
    ELSE [ ws |-> [w EXCEPT !.current_ammo = @ - 1, !.last_shot_time = ts[i + 1]],
           anim |-> a, result |-> TRUE ]

\* WeaponSystem.shoot(); reads ts[i] .. ts[i+3]
WeaponSystem_shoot(w, a, ts, i) ==
    IF ~can_shoot(w, ts[i])
    THEN [ws |-> w, anim |-> a, result |-> FALSE]
    ELSE LET w1 == [w EXCEPT !.current_ammo = @ - 1, !.last_shot_time = ts[i + 1]]
         IN  IF w1.current_ammo <= 0
             THEN [start_reload(w1, a, NoneQ, ts, i + 2) EXCEPT !.result = TRUE]
             ELSE [ws |-> w1, anim |-> a, result |-> TRUE]

\* a faulty variant of WeaponSystem_update: the reload completes only
\* after more than reload_time
WeaponSystem_update_Strict(w, a, ts, i) ==
    LET a1 == ReloadAnimation_update(a, ts[i])
    IN  IF w.is_reloading /\ ts[i + 1] - w.reload_start_time > w.reload_time
        THEN [ws     |-> [w EXCEPT !.current_ammo = w.max_ammo, !.is_reloading = FALSE],
              anim   |-> a1,
              result |-> TRUE]
        ELSE [ws |-> w, anim |-> a1, result |-> TRUE]

\* a faulty variant of WeaponSystem_update: the reload is looked at only
\* while the animation runs
WeaponSystem_update_WhileAnimating(w, a, ts, i) ==
    LET a1 == ReloadAnimation_update(a, ts[i])
    IN  IF a1.is_active /\ w.is_reloading /\ ts[i + 1] - w.reload_start_time >= w.reload_time
        THEN [ws     |-> [w EXCEPT !.current_ammo = w.max_ammo, !.is_reloading = FALSE],
              anim   |-> a1,
              result |-> TRUE]
        ELSE [ws |-> w, anim |-> a1, result |-> TRUE]

\* WeaponSystem.update(); reads ts[i], ts[i+1]
WeaponSystem_update(w, a, ts, i) ==
    LET a1 == ReloadAnimation_update(a, ts[i])
    IN  IF w.is_reloading /\ ts[i + 1] - w.reload_start_time >= w.reload_time
        THEN [ws     |-> [w EXCEPT !.current_ammo = w.max_ammo, !.is_reloading = FALSE],
              anim   |-> a1,
              result |-> TRUE]
        ELSE [ws |-> w, anim |-> a1, result |-> TRUE]

\* shoot(camera, enemies, weapon_system, quaternion_weapon, shooting_effects)
\* of weapon.py, its effect on the weapon system; reads ts[i] .. ts[i+3]
shoot(w, a, quaternion, ts, i) ==
    LET r == WeaponSystem_shoot(w, a, ts, i)
    IN  IF ~r.result
        THEN IF w.current_ammo <= 0
             THEN [start_reload(w, a, quaternion, ts, i + 1) EXCEPT !.result = FALSE]
             ELSE [ws |-> w, anim |-> a, result |-> FALSE]
        ELSE r

----------------------------------------------------------------------------
(* Estimate  (src/fps_game/src/vision/estimate.py) and Viewer.update       *)
(* (src/fps_game/src/vision/monitors.py)                                   *)

\* Estimate.WIDTH
WIDTH == 1500

\* r = 0.4 in get_degree_in_game
Radius == 400

\* artistic = 1.3 in get_degree_in_game, in tenths
Artistic == 13

\* self.d of get_degree_in_game for a marker centre projected at pixel x
PositionOffset(x) == Div((Div(x * Radius, WIDTH) - Radius \div 2) * Artistic, 10)

\* Viewer.update(r, d, arc_deg): alpha, in degrees
ViewerAlpha(r, d, arc_deg) ==
    LET theta_deg == 90 - arc_deg
        Ex == Div(r * CosDeg(theta_deg), TrigScale)
        Ey == Div(r * SinDeg(theta_deg), TrigScale)
    IN  Atan2Deg(Ey - 0, Ex - d)

\* Estimate.get_degree_in_game: the estimator with d and alpha set from the
\* marker centre's pixel column x
get_degree_in_game(e, x) ==
    LET d == PositionOffset(x)
        arc_deg == Div(x * 180, WIDTH) - 90
    IN  [e EXCEPT !.d = d, !.alpha = ViewerAlpha(Radius, d, arc_deg)]

\* Estimate.is_shooting(): the recoil detector needs at least 4 tracked
\* centres; whether they show the up-down kick is the frames' doing (recoil)
is_shooting(e, recoil) == e.track_len >= 4 /\ recoil

\* len(track_coords) after an append to deque(maxlen=5)
TrackAppend(n) == Min(n + 1, 5)

\* a faulty variant of get_measurements: a frame without marker resets the
\* position and the orientation
get_measurements_ResetPose(e, frame) ==
    IF frame.marker
    THEN LET e1 == [get_degree_in_game(e, frame.x) EXCEPT
                        !.d_to_cam  = frame.dist,
                        !.angle     = frame.angle,
                        !.track_len = TrackAppend(e.track_len)]
             shooting  == e.shoot_cooldown = 0 /\ is_shooting(e1, frame.recoil)
             reloading == e.reload_cooldown = 0 /\ frame.fist
         IN  [e1 EXCEPT !.shooting        = shooting,
                        !.shoot_cooldown  = IF shooting THEN 5 ELSE e.shoot_cooldown,
                        !.reloading       = reloading,
                        !.reload_cooldown = IF reloading THEN 30 ELSE e.reload_cooldown]
    ELSE [e EXCEPT !.d_to_cam = 0, !.d = 0, !.alpha = 0]

\* Estimate.get_measurements(frame): the estimator after it.  A frame tells
\* whether a marker is detected, the pixel column x of its centre, its
\* distance and in-plane angle, and what the two gesture detectors see.
get_measurements(e, frame) ==
    IF frame.marker
    THEN LET e1 == [get_degree_in_game(e, frame.x) EXCEPT
                        !.d_to_cam  = frame.dist,
                        !.angle     = frame.angle,
                        !.track_len = TrackAppend(e.track_len)]
             shooting  == e.shoot_cooldown = 0 /\ is_shooting(e1, frame.recoil)
             reloading == e.reload_cooldown = 0 /\ frame.fist
         IN  [e1 EXCEPT !.shooting        = shooting,
                        !.shoot_cooldown  = IF shooting THEN 5 ELSE e.shoot_cooldown,
                        !.reloading       = reloading,
                        !.reload_cooldown = IF reloading THEN 30 ELSE e.reload_cooldown]
    ELSE [e EXCEPT !.d_to_cam = 0]

----------------------------------------------------------------------------
(* Game state after Game.__init__  (src/fps_game/main.py)                  *)

\* Game.aruco_data as __init__ sets it
ArucoDataInit ==
    [ position_offset   |-> 0,
      orientation_alpha |-> 0,
      degree            |-> 90,
      rotation_angle    |-> 0,
      distance_to_cam   |-> 1500,
      shooting          |-> FALSE,
      reloading         |-> FALSE ]

\* Estimate.__init__: the fields the tracking loop reads and writes;
\* track_len is len(track_coords)
EstimateInit ==
    [ d               |-> 0,
      alpha           |-> 0,
      d_to_cam        |-> 0,
      angle           |-> 0,
      reloading       |-> FALSE,
      reload_cooldown |-> 0,
      track_len       |-> 0,
      shooting        |-> FALSE,
      shoot_cooldown  |-> 0 ]

\* max_ammo of the model's magazine (the game's is 7)
MaxAmmo == 2

\* The clock starts later than any interval the program measures from its
\* zero timestamps (last_shot_time = 0).
Init ==
    /\ now = FireRate
    /\ qw = QuaternionWeaponInit
    /\ qw2 = QuaternionWeaponInit
    /\ ws = WeaponSystemInit(MaxAmmo, ReloadTime)
    /\ anim = ReloadAnimationInit(ReloadTime)
    /\ phase_seen = "None"
    /\ update_call = <<>>
    /\ aruco_data = ArucoDataInit
    /\ last_shoot_state = FALSE
    /\ last_reload_state = FALSE
    /\ est = EstimateInit
    /\ aruco_lock = "free"
    /\ t_pc = "open"
    /\ m_pc = "update"
    /\ current_aruco_data = ArucoDataInit
    /\ last_published = ArucoDataInit
    /\ aruco_running = TRUE
    /\ returned = <<>>
    /\ last_snapshot = <<>>
    /\ handoff = [unread |-> FALSE, lost |-> FALSE]

----------------------------------------------------------------------------
(* The clock.  A handler runs in far less than a tick, so the clock        *)
(* crosses at most one tick boundary while it runs: of the n reads of      *)
(* time.time() it makes, those before the boundary return now and the      *)
(* others now + 1.                                                         *)

\* the last tick of the model's clock
MaxTime == 12

Clock(n) ==
    {[i \in 1..n |-> IF i < k THEN now ELSE now + 1] :
        k \in {j \in 1..(n + 1) : j = n + 1 \/ now < MaxTime}}

\* time passes between two handlers
Tick ==
    /\ now < MaxTime
    /\ now' = now + 1
    /\ returned' = <<>>
    /\ UNCHANGED <<qw, qw2, ws, anim, phase_seen, update_call, aruco_data,
                   last_shoot_state, last_reload_state, last_snapshot, ThreadVars>>

----------------------------------------------------------------------------
(* The reload animation driven through its public methods                  *)

\* the orientations a caller hands to start_animation
StartQuaternions == {IdentityQuaternion, <<7072, 0, -7072, 0>>}

NotAnim == <<qw, qw2, ws, aruco_data, last_shoot_state, last_reload_state, last_snapshot, ThreadVars>>

\* reload_animation.start_animation(q)
AnimStart(q) ==
    /\ anim' = start_animation(anim, q, now)
    /\ phase_seen' = "None"
    /\ update_call' = <<>>
    /\ returned' = <<>>
    /\ UNCHANGED <<now, NotAnim>>

\* reload_animation.update()
AnimUpdate ==
    /\ anim' = ReloadAnimation_update(anim, now)
    /\ update_call' = <<anim, now>>
    /\ returned' = <<>>
    /\ UNCHANGED <<now, phase_seen, NotAnim>>

\* reload_animation.get_current_phase(), the caller keeping the result
AnimGetCurrentPhase ==
    /\ phase_seen' = get_current_phase(anim, now)
    /\ returned' = <<>>
    /\ UNCHANGED <<now, anim, update_call, NotAnim>>

\* reload_animation.get_weapon_transition_quaternion(current_quaternion),
\* the caller keeping the result
AnimGetWeaponTransitionQuaternion(current_quaternion) ==
    /\ returned' = [ op     |-> "get_weapon_transition_quaternion",
                     a      |-> anim,
                     t      |-> now,
                     arg    |-> current_quaternion,
                     result |-> get_weapon_transition_quaternion(anim, current_quaternion, now) ]
    /\ UNCHANGED <<now, anim, phase_seen, update_call, NotAnim>>

\* the weapon positions a caller hands to get_arm_segments
WeaponPositions == {VecAdd(camera_pos, base_weapon_offset)}

\* reload_animation.get_arm_segments(weapon_position), the caller keeping
\* the result
AnimGetArmSegments(weapon_position) ==
    \E ts \in Clock(3) :
        /\ returned' = [ op     |-> "get_arm_segments",
                         a      |-> anim,
                         ts     |-> ts,
                         arg    |-> weapon_position,
                         result |-> get_arm_segments(anim, weapon_position, ts, 1) ]
        /\ now' = ts[3]
        /\ UNCHANGED <<anim, phase_seen, update_call, NotAnim>>

NextAnim ==
    \/ Tick
    \/ \E q \in StartQuaternions : AnimStart(q)
    \/ AnimUpdate
    \/ AnimGetCurrentPhase
    \/ \E q \in StartQuaternions : AnimGetWeaponTransitionQuaternion(q)
    \/ \E p \in WeaponPositions : AnimGetArmSegments(p)

SpecAnim == Init /\ [][NextAnim]_vars

----------------------------------------------------------------------------
(* The weapon system driven through its public methods.  The comparisons   *)
(* of the code are on differences of clock readings, so when the clock has *)
(* reached MaxTime the passing of a tick moves the stored time stamps back *)
(* by one instead, down to 0: a time stamp at 0 is then at least MaxTime   *)
(* old, older than reload_time and fire_rate.                              *)

NotWeapon ==
    <<qw, qw2, phase_seen, update_call, aruco_data, last_shoot_state, last_reload_state, last_snapshot,
      ThreadVars>>

\* weapon_system.shoot(), the caller keeping the result
WsShoot ==
    \E ts \in Clock(4) :
    \E r \in {WeaponSystem_shoot(ws, anim, ts, 1)} :
        /\ ws' = r.ws
        /\ anim' = r.anim
        /\ now' = ts[4]
        /\ returned' = [ op |-> "shoot", ws |-> ws, ts |-> ts, result |-> r.result ]
        /\ UNCHANGED NotWeapon

\* weapon_system.start_reload(current_quaternion)
WsStartReload(current_quaternion) ==
    \E ts \in Clock(2) :
    \E r \in {start_reload(ws, anim, current_quaternion, ts, 1)} :
        /\ ws' = r.ws
        /\ anim' = r.anim
        /\ now' = ts[2]
        /\ returned' = <<>>
        /\ UNCHANGED NotWeapon

\* weapon_system.force_reload(current_quaternion)
WsForceReload(current_quaternion) ==
    \E ts \in Clock(2) :
    \E r \in {force_reload(ws, anim, current_quaternion, ts, 1)} :
        /\ ws' = r.ws
        /\ anim' = r.anim
        /\ now' = ts[2]
        /\ returned' = <<>>
        /\ UNCHANGED NotWeapon

\* weapon_system.update()
WsUpdate ==
    \E ts \in Clock(2) :
    \E r \in {WeaponSystem_update(ws, anim, ts, 1)} :
        /\ ws' = r.ws
        /\ anim' = r.anim
        /\ now' = ts[2]
        /\ returned' = [ op |-> "update", ws |-> ws, ts |-> ts, result |-> r.result ]
        /\ UNCHANGED NotWeapon

\* a tick passes with the clock at MaxTime
Advance ==
    /\ now = MaxTime
    /\ ws' = [ws EXCEPT !.reload_start_time = Max(0, @ - 1), !.last_shot_time = Max(0, @ - 1)]
    /\ anim' = [anim EXCEPT !.start_time = Max(0, @ - 1)]
    /\ returned' = <<>>
    /\ UNCHANGED <<now, NotWeapon>>

NextWeapon ==
    \/ Tick
    \/ Advance
    \/ WsShoot
    \/ \E q \in {NoneQ, <<7072, 0, -7072, 0>>} : WsStartReload(q)
    \/ \E q \in {NoneQ, <<7072, 0, -7072, 0>>} : WsForceReload(q)
    \/ WsUpdate

SpecWeapon == Init /\ [][NextWeapon]_vars

\* time passes, and the main loop keeps calling weapon_system.update()
FairReload ==
    /\ WF_vars(Tick \/ Advance)
    /\ WF_vars(WsUpdate)

SpecReload == Init /\ [][NextWeapon]_vars /\ FairReload

----------------------------------------------------------------------------
(* The interpolation of two orientations, called on its own                *)

\* unit quaternions of rotations about the y axis, by their half angle in
\* degrees; 180 is the identity negated, and the pairs whose half angles
\* differ by more than 90 have a negative dot product
UnitQuaternions == {<<CosDeg(h), 0, SinDeg(h), 0>> : h \in {0, 30, 45, 90, 120, 180, 315}}

\* the interpolation parameters, in 1/ProgressScale
SlerpTimes == {0, ProgressScale \div 4, ProgressScale \div 2, ProgressScale}

\* reload_animation._slerp_quaternions(q1, q2, t), the caller keeping the
\* result
Slerp(q1, q2, t) ==
    /\ returned' = [ op     |-> "slerp_quaternions",
                     q1     |-> q1,
                     q2     |-> q2,
                     t      |-> t,
                     result |-> slerp_quaternions(q1, q2, t) ]
    /\ UNCHANGED <<now, qw, qw2, ws, anim, phase_seen, update_call, aruco_data,
                   last_shoot_state, last_reload_state, last_snapshot, ThreadVars>>

NextSlerp == \E q1 \in UnitQuaternions, q2 \in UnitQuaternions, t \in SlerpTimes : Slerp(q1, q2, t)

SpecSlerp == Init /\ [][NextSlerp]_vars

----------------------------------------------------------------------------
(* The arm solver, called on its own                                       *)

\* the shoulder positions: the origin and the shoulder of the resting weapon
IKShoulders == {<<0, 0, 0>>, VecAdd(VecAdd(camera_pos, base_weapon_offset), shoulder_offset)}

\* the targets, relative to the shoulder, in 1/LenScale: at the shoulder,
\* nearer than the fold of the arm, within reach, at the full reach
\* (2900, 0, 0) and beyond it, straight above and below included
IKOffsets ==
    {<<x, y, z>> : x \in {0, 50, 150, 1000, 2000, 2900, 3000},
                   y \in {0, 80, 2000, -3000},
                   z \in {0, -500}}

\* reload_animation.solve_ik(shoulder_pos, target_pos), the caller keeping
\* the result
SolveIK(shoulder_pos, target_pos) ==
    /\ returned' = [ op       |-> "solve_ik",
                     shoulder |-> shoulder_pos,
                     target   |-> target_pos,
                     result   |-> solve_ik(shoulder_pos, target_pos) ]
    /\ UNCHANGED <<now, qw, qw2, ws, anim, phase_seen, update_call, aruco_data,
                   last_shoot_state, last_reload_state, last_snapshot, ThreadVars>>

NextIK == \E s \in IKShoulders, o \in IKOffsets : SolveIK(s, VecAdd(s, o))

SpecIK == Init /\ [][NextIK]_vars

----------------------------------------------------------------------------
(* The game's main thread  (src/fps_game/main.py): the handlers of         *)
(* handle_events and update, the player alive.  The tracking thread is     *)
(* here the publication of any whole snapshot.                             *)

\* the snapshots the tracking thread publishes
GameSnapshots ==
    {[ArucoDataInit EXCEPT !.shooting = s, !.reloading = r] : s, r \in BOOLEAN}

NotGame == <<qw2, phase_seen, update_call, ThreadVars>>

\* handle_events, KEYDOWN K_r: force_reload(quaternion_weapon.quaternion),
\* whose result decides whether the handler prints
KeyReload ==
    \E ts \in Clock(2) :
    \E r \in {force_reload(ws, anim, qw.quaternion, ts, 1)} :
        /\ ws' = r.ws
        /\ anim' = r.anim
        /\ now' = ts[2]
        /\ returned' = [ op     |-> "force_reload",
                         ws     |-> ws,
                         anim   |-> anim,
                         result |-> r.result ]
        /\ UNCHANGED <<qw, aruco_data, last_shoot_state, last_reload_state, last_snapshot, NotGame>>

\* handle_events, MOUSEBUTTONDOWN button 1: shoot(...)
MouseClick ==
    \E ts \in Clock(4) :
    \E r \in {shoot(ws, anim, qw.quaternion, ts, 1)} :
        /\ ws' = r.ws
        /\ anim' = r.anim
        /\ now' = ts[4]
        /\ returned' = <<>>
        /\ UNCHANGED <<qw, aruco_data, last_shoot_state, last_reload_state, last_snapshot, NotGame>>

\* a faulty variant of gesture_edges: a raised flag triggers in every frame
gesture_edges_Level(cur) ==
    [ shoot        |-> cur.shooting,
      force_reload |-> cur.reloading ]

\* Game.update, the two edge tests on the snapshot cur: which of shoot(...)
\* and weapon_system.force_reload(...) the frame calls
gesture_edges(cur) ==
    [ shoot        |-> cur.shooting /\ ~last_shoot_state,
      force_reload |-> cur.reloading /\ ~last_reload_state ]

\* a faulty variant of ApplySnapshot: the pose follows the snapshot during
\* a reload too
ApplySnapshot_AlwaysPose(u, cur, ts) ==
    \E w1 \in {calculate_weapon_orientation(update_full_aruco_data(qw, cur))} :
    \E s \in {IF gesture_edges(cur).shoot
               THEN shoot(u.ws, u.anim, w1.quaternion, ts, 3)
               ELSE u} :
    \E r \in {IF gesture_edges(cur).force_reload
               THEN force_reload(s.ws, s.anim, w1.quaternion, ts, 7)
               ELSE s} :
        /\ qw' = w1
        /\ ws' = r.ws
        /\ anim' = r.anim
        /\ last_shoot_state' = cur.shooting
        /\ last_reload_state' = cur.reloading
        /\ last_snapshot' = [shooting |-> cur.shooting, reloading |-> cur.reloading]

\* Game.update after the snapshot cur is copied: the pose update when not
\* reloading, then the two gesture edges.  u is the weapon system and the
\* animation after weapon_system.update(); reads ts[3] .. ts[8].
ApplySnapshot(u, cur, ts) ==
    \E w1 \in {IF ~u.ws.is_reloading
                THEN calculate_weapon_orientation(update_full_aruco_data(qw, cur))
                ELSE qw} :
    \E s \in {IF gesture_edges(cur).shoot
               THEN shoot(u.ws, u.anim, w1.quaternion, ts, 3)
               ELSE u} :
    \E r \in {IF gesture_edges(cur).force_reload
               THEN force_reload(s.ws, s.anim, w1.quaternion, ts, 7)
               ELSE s} :
        /\ qw' = w1
        /\ ws' = r.ws
        /\ anim' = r.anim
        /\ last_shoot_state' = cur.shooting
        /\ last_reload_state' = cur.reloading
        /\ last_snapshot' = [shooting |-> cur.shooting, reloading |-> cur.reloading]

\* Game.update()
Update ==
    \E ts \in Clock(8) :
    \E u \in {WeaponSystem_update(ws, anim, ts, 1)} :
        /\ ApplySnapshot(u, aruco_data, ts)
        /\ now' = ts[8]
        /\ returned' = [ op           |-> "Game.update",
                         is_reloading |-> u.ws.is_reloading,
                         before       |-> qw,
                         cur          |-> aruco_data,
                         previous     |-> last_snapshot,
                         called       |-> gesture_edges(aruco_data) ]
        /\ UNCHANGED <<aruco_data, NotGame>>

\* the tracking thread publishes a snapshot
ArucoPublish(s) ==
    /\ aruco_data' = s
    /\ returned' = <<>>
    /\ UNCHANGED <<now, qw, ws, anim, last_shoot_state, last_reload_state, last_snapshot, NotGame>>

Next ==
    \/ Tick
    \/ KeyReload
    \/ MouseClick
    \/ Update
    \/ \E s \in GameSnapshots : ArucoPublish(s)

Spec == Init /\ [][Next]_vars

----------------------------------------------------------------------------
(* The two threads  (src/fps_game/main.py): aruco_detection_loop from the   *)
(* opening of the camera to its return, and the main loop's Game.update,   *)
(* split where the threads meet at aruco_lock.  The clock stands still.    *)

\* the frames the camera delivers
Frames ==
    [ marker : {TRUE}, x : {0, 750}, dist : {500}, angle : {0},
      recoil : BOOLEAN, fist : {FALSE} ]
    \cup
    [ marker : {FALSE}, x : {0}, dist : {0}, angle : {0},
      recoil : {FALSE}, fist : {FALSE} ]

\* the cooldown updates of the loop after get_measurements
CooldownStep(e) ==
    [e EXCEPT !.shoot_cooldown  = IF @ > 0 THEN @ - 1 ELSE @,
              !.reload_cooldown = IF @ > 0 THEN @ - 1 ELSE @]

\* the geometry_data dict the loop builds from the estimator
GeometryData(e) ==
    [ position_offset   |-> e.d,
      orientation_alpha |-> e.alpha,
      degree            |-> 90,
      rotation_angle    |-> e.angle,
      distance_to_cam   |-> IF e.d_to_cam > 0 THEN e.d_to_cam ELSE default_distance_to_cam,
      shooting          |-> e.shooting,
      reloading         |-> e.reloading ]

\* a faulty variant of the publication: the shared dict is updated in
\* place, its orientation and gesture flags left behind
Publish_InPlace(shared, geometry_data) ==
    [shared EXCEPT !.position_offset = geometry_data.position_offset,
                   !.rotation_angle  = geometry_data.rotation_angle,
                   !.distance_to_cam = geometry_data.distance_to_cam]

\* self.aruco_data = geometry_data: the shared name is bound to the new dict
Publish(shared, geometry_data) == geometry_data

\* dict.copy()
Copy(d) == [k \in DOMAIN d |-> d[k]]

\* the clock reads of a handler, the clock standing still
Still(n) == [i \in 1..n |-> now]

MainVars == <<qw, ws, anim, last_shoot_state, last_reload_state, last_snapshot, m_pc, current_aruco_data>>

TrackerVars == <<est, t_pc, last_published, handoff>>

NotThreads == <<now, qw2, phase_seen, update_call, returned, aruco_running>>

\* a faulty variant of the camera check: a camera that did not open is
\* published as a sample without a distance
TrackerOpen_PublishesFailure(opened) ==
    /\ t_pc = "open"
    /\ t_pc' = IF opened THEN "loop" ELSE "no_camera"
    /\ aruco_data' = IF opened THEN aruco_data ELSE [aruco_data EXCEPT !.distance_to_cam = 0]
    /\ UNCHANGED <<est, last_published, handoff, aruco_lock, MainVars, NotThreads>>

\* cv2.VideoCapture(0) and cap.isOpened(): the loop is entered when the
\* camera opened, and the thread returns when it did not
TrackerOpen(opened) ==
    /\ t_pc = "open"
    /\ t_pc' = IF opened THEN "loop" ELSE "no_camera"
    /\ UNCHANGED <<est, last_published, handoff, aruco_data, aruco_lock, MainVars, NotThreads>>

\* while self.aruco_running: the flag is read at the top of every iteration
TrackerLoop ==
    /\ t_pc = "loop"
    /\ t_pc' = IF aruco_running THEN "measure" ELSE "done"
    /\ UNCHANGED <<est, last_published, handoff, aruco_data, aruco_lock, MainVars, NotThreads>>

\* a faulty variant of the skipped iteration: the frame is read again
\* without the flag being looked at
TrackerSkip_Retry(why) ==
    /\ t_pc = "measure"
    /\ why \in {"no frame", "frame error"}
    /\ t_pc' = "measure"
    /\ UNCHANGED <<est, last_published, handoff, aruco_data, aruco_lock, MainVars, NotThreads>>

\* continue: cap.read() returned no frame, or the processing of the frame
\* raised before the estimator was touched
TrackerSkip(why) ==
    /\ t_pc = "measure"
    /\ why \in {"no frame", "frame error"}
    /\ t_pc' = "loop"
    /\ UNCHANGED <<est, last_published, handoff, aruco_data, aruco_lock, MainVars, NotThreads>>

\* the frames of a window of the tracking loop
WindowFrames == 5

\* the body of the tracking loop on its own, from cap.read() to the cooldown
\* updates, frame after frame; returned keeps estimator.shooting at the end
\* of each of the last WindowFrames frames, the latest last
ProcessFrame(frame) ==
    \E e \in {CooldownStep(get_measurements(est, frame))} :
    \E seen \in {IF returned = <<>> THEN <<>> ELSE returned.shooting} :
        /\ est' = e
        /\ returned' = [ op       |-> "frames",
                         marker   |-> frame.marker,
                         shooting |-> IF Len(seen) < WindowFrames
                                      THEN Append(seen, e.shooting)
                                      ELSE Append(Tail(seen), e.shooting) ]
        /\ UNCHANGED <<now, qw, qw2, ws, anim, phase_seen, update_call, aruco_data,
                       last_shoot_state, last_reload_state, last_snapshot, aruco_lock,
                       t_pc, m_pc, current_aruco_data, last_published, handoff, aruco_running>>

NextFrames == \E frame \in Frames : ProcessFrame(frame)

SpecFrames == Init /\ [][NextFrames]_vars

\* cap.read() to the cooldown updates: one frame is processed
TrackerFrame(frame) ==
    /\ t_pc = "measure"
    /\ est' = CooldownStep(get_measurements(est, frame))
    /\ t_pc' = "acquire"
    /\ UNCHANGED <<last_published, handoff, aruco_data, aruco_lock, MainVars, NotThreads>>

\* with self.aruco_lock: entered
TrackerAcquire ==
    /\ t_pc = "acquire"
    /\ aruco_lock = "free"
    /\ aruco_lock' = "tracker"
    /\ t_pc' = "publish"
    /\ UNCHANGED <<est, last_published, handoff, aruco_data, MainVars, NotThreads>>

\* geometry_data is built and published
TrackerPublish ==
    /\ t_pc = "publish"
    /\ last_published' = GeometryData(est)
    /\ aruco_data' = Publish(aruco_data, GeometryData(est))
    /\ handoff' = [unread |-> GeometryData(est).shooting, lost |-> handoff.unread]
    /\ t_pc' = "release"
    /\ UNCHANGED <<est, aruco_lock, MainVars, NotThreads>>

\* with self.aruco_lock: left; the window is shown and the key read: q
\* breaks out of the loop, anything else goes to the next iteration
TrackerRelease(key) ==
    /\ t_pc = "release"
    /\ aruco_lock' = "free"
    /\ t_pc' = IF key = "q" THEN "done" ELSE "loop"
    /\ UNCHANGED <<est, last_published, handoff, aruco_data, MainVars, NotThreads>>

\* Game.update up to the lock: weapon_system.update()
MainWeaponUpdate ==
    /\ m_pc = "update"
    /\ \E u \in {WeaponSystem_update(ws, anim, Still(2), 1)} :
           /\ ws' = u.ws
           /\ anim' = u.anim
    /\ m_pc' = "acquire"
    /\ UNCHANGED <<qw, last_shoot_state, last_reload_state, last_snapshot, current_aruco_data,
                   aruco_data, aruco_lock, TrackerVars, NotThreads>>

\* with self.aruco_lock: entered
MainAcquire ==
    /\ m_pc = "acquire"
    /\ aruco_lock = "free"
    /\ aruco_lock' = "main"
    /\ m_pc' = "copy"
    /\ UNCHANGED <<qw, ws, anim, last_shoot_state, last_reload_state, last_snapshot, current_aruco_data,
                   aruco_data, TrackerVars, NotThreads>>

\* current_aruco_data = self.aruco_data.copy()
MainCopy ==
    /\ m_pc = "copy"
    /\ current_aruco_data' = Copy(aruco_data)
    /\ handoff' = [handoff EXCEPT !.unread = FALSE]
    /\ m_pc' = "release"
    /\ UNCHANGED <<qw, ws, anim, last_shoot_state, last_reload_state, last_snapshot,
                   aruco_data, aruco_lock, est, t_pc, last_published, NotThreads>>

\* with self.aruco_lock: left
MainRelease ==
    /\ m_pc = "release"
    /\ aruco_lock' = "free"
    /\ m_pc' = "apply"
    /\ UNCHANGED <<qw, ws, anim, last_shoot_state, last_reload_state, last_snapshot, current_aruco_data,
                   aruco_data, TrackerVars, NotThreads>>

\* the rest of Game.update
MainApply ==
    /\ m_pc = "apply"
    /\ ApplySnapshot([ws |-> ws, anim |-> anim], current_aruco_data, Still(8))
    /\ m_pc' = "update"
    /\ UNCHANGED <<current_aruco_data, aruco_data, aruco_lock, TrackerVars, NotThreads>>

NextThreads ==
    \/ \E opened \in BOOLEAN : TrackerOpen(opened)
    \/ TrackerLoop
    \/ \E why \in {"no frame", "frame error"} : TrackerSkip(why)
    \/ \E frame \in Frames : TrackerFrame(frame)
    \/ TrackerAcquire
    \/ TrackerPublish
    \/ \E key \in {"none", "q"} : TrackerRelease(key)
    \/ MainWeaponUpdate
    \/ MainAcquire
    \/ MainCopy
    \/ MainRelease
    \/ MainApply

SpecThreads == Init /\ [][NextThreads]_vars

----------------------------------------------------------------------------
(* The shutdown of the tracking thread  (src/fps_game/main.py, run and     *)
(* stop_aruco_detection)                                                   *)

\* the main loop ends and run() calls stop_aruco_detection(): the flag is
\* cleared, and the thread is joined if it is alive
MainStop ==
    /\ m_pc = "update"
    /\ aruco_running' = FALSE
    /\ m_pc' = IF t_pc \in {"done", "no_camera"} THEN "exited" ELSE "join"
    /\ UNCHANGED <<qw, ws, anim, last_shoot_state, last_reload_state, last_snapshot, current_aruco_data,
                   aruco_data, aruco_lock, TrackerVars, now, qw2, phase_seen, update_call,
                   returned>>

\* join(timeout=1.0) returns because the thread has ended
MainJoined ==
    /\ m_pc = "join"
    /\ t_pc \in {"done", "no_camera"}
    /\ m_pc' = "exited"
    /\ UNCHANGED <<qw, ws, anim, last_shoot_state, last_reload_state, last_snapshot, current_aruco_data,
                   aruco_data, aruco_lock, TrackerVars, NotThreads>>

\* join(timeout=1.0) returns because the second has passed
MainJoinTimeout ==
    /\ m_pc = "join"
    /\ m_pc' = "exited"
    /\ UNCHANGED <<qw, ws, anim, last_shoot_state, last_reload_state, last_snapshot, current_aruco_data,
                   aruco_data, aruco_lock, TrackerVars, NotThreads>>

NextShutdown ==
    \/ NextThreads
    \/ MainStop
    \/ MainJoined
    \/ MainJoinTimeout

\* The tracking thread is scheduled, cap.read() returns (with or without a
\* frame), the lock is granted when it stays free, and the timeout of the
\* join passes.
FairShutdown ==
    /\ WF_vars(\E opened \in BOOLEAN : TrackerOpen(opened))
    /\ WF_vars(TrackerLoop)
    /\ WF_vars(\E why \in {"no frame", "frame error"} : TrackerSkip(why))
    /\ WF_vars(TrackerAcquire)
    /\ WF_vars(TrackerPublish)
    /\ WF_vars(\E key \in {"none", "q"} : TrackerRelease(key))
    /\ WF_vars(MainJoined \/ MainJoinTimeout)

SpecShutdown == Init /\ [][NextShutdown]_vars /\ FairShutdown

----------------------------------------------------------------------------
(* The pose specification: two QuaternionWeapon instances driven through   *)
(* their public methods with samples of every kind, the no-detection       *)
(* sample (distance_to_cam = 0) included.                                  *)

PoseSamples ==
    [ position_offset   : {-260, 0},
      orientation_alpha : {0, 90},
      degree            : {90},
      rotation_angle    : {0, 60, -90},
      distance_to_cam   : {0, 500, 1500},
      shooting          : {FALSE},
      reloading         : {FALSE} ]

NotPose == <<now, ws, anim, phase_seen, update_call, aruco_data, last_shoot_state,
            last_reload_state, last_snapshot, ThreadVars, returned>>

\* quaternion_weapon.update_full_aruco_data(s)
UpdateFullArucoData(s) ==
    /\ qw' = update_full_aruco_data(qw, s)
    /\ UNCHANGED <<qw2, NotPose>>

\* quaternion_weapon.calculate_weapon_orientation()
CalculateWeaponOrientation ==
    /\ qw' = calculate_weapon_orientation(qw)
    /\ UNCHANGED <<qw2, NotPose>>

\* the same two methods on the second instance
UpdateFullArucoData2(s) ==
    /\ qw2' = update_full_aruco_data(qw2, s)
    /\ UNCHANGED <<qw, NotPose>>

CalculateWeaponOrientation2 ==
    /\ qw2' = calculate_weapon_orientation(qw2)
    /\ UNCHANGED <<qw, NotPose>>

NextPose ==
    \/ \E s \in PoseSamples : UpdateFullArucoData(s)
    \/ CalculateWeaponOrientation

\* the samples of the two-instance specification
PairSamples ==
    {s \in PoseSamples : s.position_offset = 0 /\ s.rotation_angle \in {0, 60}
                                                /\ s.distance_to_cam \in {500, 1500}}

NextPosePair ==
    \/ \E s \in PairSamples : UpdateFullArucoData(s)
    \/ CalculateWeaponOrientation
    \/ \E s \in PairSamples : UpdateFullArucoData2(s)
    \/ CalculateWeaponOrientation2

\* the arguments of the calibrations, in 1/SensScale: negative, zero, below
\* and above the floors
CalibrationArguments == {-500, -1, 0, 1, 5, 10, 50, 300, 2000}

\* quaternion_weapon.calibrate_position_sensitivity(sensitivity)
CalibratePositionSensitivity(sensitivity) ==
    /\ qw' = calibrate_position_sensitivity(qw, sensitivity)
    /\ UNCHANGED <<qw2, NotPose>>

\* quaternion_weapon.calibrate_distance_sensitivity(sensitivity)
CalibrateDistanceSensitivity(sensitivity) ==
    /\ qw' = calibrate_distance_sensitivity(qw, sensitivity)
    /\ UNCHANGED <<qw2, NotPose>>

\* quaternion_weapon.calibrate_roll_sensitivity(sensitivity)
CalibrateRollSensitivity(sensitivity) ==
    /\ qw' = calibrate_roll_sensitivity(qw, sensitivity)
    /\ UNCHANGED <<qw2, NotPose>>

NextCalibrate ==
    \/ \E s \in CalibrationArguments : CalibratePositionSensitivity(s)
    \/ \E s \in CalibrationArguments : CalibrateDistanceSensitivity(s)
    \/ \E s \in CalibrationArguments : CalibrateRollSensitivity(s)

SpecCalibrate == Init /\ [][NextCalibrate]_vars

SpecPose == Init /\ [][NextPose]_vars

SpecPosePair == Init /\ [][NextPosePair]_vars

----------------------------------------------------------------------------
(* Properties                                                              *)

\* C6 (no-detection fallback): whenever the last sample applied by
\* update_full_aruco_data carried distance_to_cam = 0, weapon_offset.z is
\* the value the same update gives for a sample at the default distance,
\* however many samples were applied before.
C6_NoDetectionFallback ==
    qw.geometry_data.distance_to_cam = 0 =>
        qw.weapon_offset[3] =
            update_full_aruco_data(qw,
                [qw.geometry_data EXCEPT !.distance_to_cam = default_distance_to_cam]).weapon_offset[3]

\* a no-detection sample has been applied after a sample that moved the weapon
C6_Witness ==
    /\ qw.geometry_data.distance_to_cam = 0
    /\ qw.weapon_offset[1] # base_weapon_offset[1]
    /\ qw.quaternion # IdentityQuaternion

\* C8 as stated: after an update with a detected sample,
\* weapon_offset.z = base_weapon_offset.z
\*                   + (distance_to_cam - default_distance_to_cam) * distance_sensitivity.
C8_Original ==
    [][\A s \in PoseSamples :
          (UpdateFullArucoData(s) /\ s.distance_to_cam > 10) =>
              qw'.weapon_offset[3] =
                  base_weapon_offset[3]
                  + Div((s.distance_to_cam - default_distance_to_cam) * qw.distance_sensitivity, SensScale)]_vars

\* C8 as amended: after an update with a detected sample,
\* weapon_offset.z = base_weapon_offset.z
\*     + (distance_to_cam - default_distance_to_cam) * distance_sensitivity * 10 + 3,
\* so a sample at the default distance leaves it at base_weapon_offset.z + 3.
C8_OffsetZ ==
    [][\A s \in PoseSamples :
          (UpdateFullArucoData(s) /\ s.distance_to_cam > 10) =>
              /\ qw'.weapon_offset[3] =
                     base_weapon_offset[3]
                     + Div((s.distance_to_cam - default_distance_to_cam) * qw.distance_sensitivity, SensScale) * 10
                     + 3 * LenScale
              /\ s.distance_to_cam = default_distance_to_cam =>
                     qw'.weapon_offset[3] = base_weapon_offset[3] + 3 * LenScale]_vars

\* a detected sample off the default distance has been applied
C8_Witness ==
    /\ qw.geometry_data.distance_to_cam = 500
    /\ qw.geometry_data.position_offset = -260
    /\ qw.weapon_offset[3] = base_weapon_offset[3] - 3 * LenScale + 3 * LenScale

C1_Original ==
    [][(anim.is_active /\ (KeyReload \/ MouseClick)) =>
          /\ anim'.start_time = anim.start_time
          /\ anim'.original_quaternion = anim.original_quaternion]_vars

\* the number of elapsed times of the sweep after 0, evenly spaced
SweepPoints == 200

\* C3 (phase coverage): while the animation is active, get_current_phase
\* swept over the elapsed times from 0 to duration starts in the first phase,
\* ends in the last, and from one elapsed time to the next stays in its
\* phase or moves to the next one; all seven phases occur; and the phase a
\* caller got earlier in the run is never later than the current one.
C3_PhaseCoverage ==
    anim.is_active =>
        LET sweep  == 0..SweepPoints
            step   == ProgressScale \div SweepPoints
            idx(i) == PhaseIndex(PhaseOfProgress(i * step))
        IN  /\ idx(0) = 1
            /\ idx(SweepPoints) = Len(Phases)
            /\ \A i \in sweep \ {0} : idx(i) \in {idx(i - 1), idx(i - 1) + 1}
            /\ \A k \in 1..Len(Phases) : \E i \in sweep : idx(i) = k
            /\ get_current_phase(anim, now) \in {Phases[k] : k \in 1..Len(Phases)}
            /\ phase_seen # "None" =>
                   PhaseIndex(phase_seen) <= PhaseIndex(get_current_phase(anim, now))

\* the caller saw contact and the animation has moved on to pull_back
C3_Witness ==
    /\ anim.is_active
    /\ phase_seen = "contact"
    /\ get_current_phase(anim, now) = "pull_back"

\* C4 (update): after a call of ReloadAnimation.update(), the animator is
\* the one before the call with is_active cleared if it was active and the
\* elapsed time was at least the duration, and the one before the call,
\* every field unchanged, in every other case.
C4_UpdateEffect ==
    update_call # <<>> =>
        LET before == update_call[1]
            t      == update_call[2]
        IN  IF before.is_active /\ t - before.start_time >= before.duration
            THEN anim = [before EXCEPT !.is_active = FALSE]
            ELSE anim = before

\* update() has ended an animation at the instant elapsed = duration, and
\* has left alone one that was still running
C4_Witness ==
    /\ update_call # <<>>
    /\ update_call[1].is_active
    /\ ~anim.is_active
    /\ update_call[2] - anim.start_time = anim.duration

\* C5 (captured orientation): a handler that starts the animator leaves in
\* original_quaternion the weapon's orientation quaternion.
C5_Original ==
    [][(anim'.is_active /\ anim' # anim) =>
          anim'.original_quaternion = qw'.quaternion]_vars

\* C2 (no tearing): the shared snapshot is always the initial default or
\* the one dict the tracking loop built last, whole; and the snapshot the
\* main loop has copied under the lock is that same dict, field for field.
C2_NoTearing ==
    /\ aruco_data = last_published
    /\ m_pc = "release" => current_aruco_data = last_published

\* the main loop holds a copy of a published dict while the tracking thread
\* waits at the lock with a different estimate
C2_Witness ==
    /\ m_pc = "release"
    /\ t_pc = "acquire"
    /\ current_aruco_data # ArucoDataInit
    /\ GeometryData(est).position_offset # current_aruco_data.position_offset
    /\ GeometryData(est).orientation_alpha # current_aruco_data.orientation_alpha

C9_Original ==
    est.d \in (-(Radius \div 2))..(Radius \div 2)

\* C11 (unit norm): the orientation quaternion of the weapon has norm 1, to
\* the rounding of its four components, in every state the pose updates
\* reach; and calculate_weapon_orientation gives a quaternion of norm 1 also
\* from the two degenerate aim targets, the weapon's own position (no
\* direction) and a point straight above it (no horizontal direction).
C11_UnitNorm ==
    LET SumSq(q) == q[1] * q[1] + q[2] * q[2] + q[3] * q[3] + q[4] * q[4]
        Unit(q)  == /\ SumSq(q) >= (TrigScale - 2) * (TrigScale - 2)
                    /\ SumSq(q) <= (TrigScale + 2) * (TrigScale + 2)
        weapon_pos == VecAdd(camera_pos, qw.weapon_offset)
    IN  /\ Unit(qw.quaternion)
        /\ Unit(calculate_weapon_orientation(qw).quaternion)
        /\ \A c \in {weapon_pos, VecAdd(weapon_pos, <<0, 5 * LenScale, 0>>)} :
               Unit(calculate_weapon_orientation([qw EXCEPT !.cursor_world_pos = c]).quaternion)

\* a pose update has yawed and rolled the weapon
C11_Witness ==
    /\ qw.roll_angle # 0
    /\ qw.yaw_quaternion # IdentityQuaternion
    /\ qw.roll_quaternion # IdentityQuaternion
    /\ qw.quaternion = calculate_weapon_orientation(qw).quaternion

\* C12 (pinned in the middle phases): a call of
\* get_weapon_transition_quaternion made while the animation is active and
\* its phase is reach_in, contact, pull_back, release or retract returns
\* target_quaternion, the identity, whatever original_quaternion and the
\* argument are; the same holds at every elapsed time of a sweep from 0 to
\* the duration, the phase boundaries included.
C12_PinnedInMiddlePhases ==
    LET Middle == {"reach_in", "contact", "pull_back", "release", "retract"}
    IN  (returned # <<>> /\ returned.op = "get_weapon_transition_quaternion"
             /\ returned.a.is_active) =>
            /\ get_current_phase(returned.a, returned.t) \in Middle =>
                   /\ returned.result = returned.a.target_quaternion
                   /\ returned.result = IdentityQuaternion
            /\ LET swept == [returned.a EXCEPT !.duration = SweepPoints, !.start_time = 0]
               IN  \A i \in 0..SweepPoints :
                       get_current_phase(swept, i) \in Middle =>
                           get_weapon_transition_quaternion(swept, returned.arg, i)
                               = IdentityQuaternion

\* the call was made in a middle phase with neither the captured nor the
\* passed quaternion the identity
C12_Witness ==
    /\ returned # <<>>
    /\ returned.op = "get_weapon_transition_quaternion"
    /\ returned.a.is_active
    /\ get_current_phase(returned.a, returned.t) = "pull_back"
    /\ returned.a.original_quaternion # IdentityQuaternion
    /\ returned.arg # IdentityQuaternion
    /\ returned.result = IdentityQuaternion

\* C13 (round trip): a call of get_weapon_transition_quaternion made at the
\* start of transition_to_center (elapsed 0) returns original_quaternion,
\* and one made at the end of transition_to_cursor (progress 1.0, the
\* animation still active) returns original_quaternion again, both to the
\* rounding of the model's arithmetic; and an animation started with the
\* identity returns the identity at elapsed = 0.99 * duration.  The
\* quaternions the game captures have a scalar part >= 0.
C13_RoundTrip ==
    LET Close(p, q) == \A i \in 1..4 : Abs(p[i] - q[i]) <= 2
    IN  (returned # <<>> /\ returned.op = "get_weapon_transition_quaternion"
             /\ returned.a.is_active) =>
            /\ returned.t = returned.a.start_time =>
                   Close(returned.result, returned.a.original_quaternion)
            /\ returned.t - returned.a.start_time >= returned.a.duration =>
                   Close(returned.result, returned.a.original_quaternion)
            /\ returned.a.original_quaternion = IdentityQuaternion =>
                   LET late == [returned.a EXCEPT !.duration = SweepPoints, !.start_time = 0]
                       at   == (99 * SweepPoints) \div 100
                   IN  /\ get_current_phase(late, at) = "transition_to_cursor"
                       /\ get_weapon_transition_quaternion(late, returned.arg, at)
                              = IdentityQuaternion

\* the call was made at the end of transition_to_cursor of an animation
\* that captured a quaternion other than the identity, and returned it
C13_Witness ==
    /\ returned # <<>>
    /\ returned.op = "get_weapon_transition_quaternion"
    /\ returned.a.is_active
    /\ returned.t - returned.a.start_time = returned.a.duration
    /\ returned.a.original_quaternion = <<7072, 0, -7072, 0>>
    /\ returned.arg = IdentityQuaternion
    /\ \A i \in 1..4 : Abs(returned.result[i] - returned.a.original_quaternion[i]) <= 2

\* C14 as stated: _slerp_quaternions(q1, q2, 1) is q2 for every pair of unit
\* quaternions, those with a negative dot product included.
C14_Original ==
    (returned # <<>> /\ returned.op = "slerp_quaternions" /\ returned.t = ProgressScale) =>
        \A i \in 1..4 : Abs(returned.result[i] - returned.q2[i]) <= 2

\* C14 (slerp endpoints): to the rounding of the model's arithmetic,
\* _slerp_quaternions(q1, q2, 0) is q1; _slerp_quaternions(q1, q2, 1) is q2
\* when the dot product of q1 and q2 is not negative and -q2, the same
\* rotation, when it is negative; and _slerp_quaternions(q, q, t) is q for
\* every t.
C14_SlerpEndpoints ==
    LET Close(p, q) == \A i \in 1..4 : Abs(p[i] - q[i]) <= 2
        Neg(q)      == <<-q[1], -q[2], -q[3], -q[4]>>
    IN  (returned # <<>> /\ returned.op = "slerp_quaternions") =>
            /\ returned.t = 0 => Close(returned.result, returned.q1)
            /\ (returned.t = ProgressScale /\ Dot4(returned.q1, returned.q2) >= 0) =>
                   Close(returned.result, returned.q2)
            /\ (returned.t = ProgressScale /\ Dot4(returned.q1, returned.q2) < 0) =>
                   Close(returned.result, Neg(returned.q2))
            /\ returned.q1 = returned.q2 => Close(returned.result, returned.q1)

\* the interpolation ran to t = 1 between two quaternions with a negative
\* dot product and returned the second one negated
C14_Witness ==
    /\ returned # <<>>
    /\ returned.op = "slerp_quaternions"
    /\ returned.t = ProgressScale
    /\ returned.q1 = IdentityQuaternion
    /\ returned.q2 = <<-5000, 0, 8660, 0>>
    /\ returned.result = <<5000, 0, -8660, 0>>

C17_Shutdown ==
    /\ [](m_pc \in {"join", "exited"} => ~aruco_running)
    /\ (~aruco_running) ~> (t_pc \in {"done", "no_camera"})
    /\ (m_pc = "join") ~> (m_pc = "exited")

\* the flag was cleared after the thread had published samples, the thread
\* has left its loop and stop_aruco_detection has returned
C17_Witness ==
    /\ ~aruco_running
    /\ t_pc = "done"
    /\ m_pc = "exited"
    /\ last_published # ArucoDataInit

\* C18 (no camera): when the camera did not open, the tracking thread has
\* returned without writing the shared snapshot, which is the one of
\* __init__ (distance_to_cam 1.5, shooting and reloading false); the lock
\* is never left held by the thread, the main loop is inside Game.update
\* and finds the lock free when it comes to take it, and the snapshot it
\* copies is that default.
C18_NoCamera ==
    t_pc = "no_camera" =>
        /\ aruco_data = ArucoDataInit
        /\ aruco_data.distance_to_cam = default_distance_to_cam
        /\ ~aruco_data.shooting
        /\ ~aruco_data.reloading
        /\ last_published = ArucoDataInit
        /\ est = EstimateInit
        /\ current_aruco_data = ArucoDataInit
        /\ aruco_lock # "tracker"
        /\ m_pc \in {"update", "acquire", "copy", "release", "apply"}
        /\ m_pc = "acquire" => aruco_lock = "free"

\* the camera did not open and the main loop is applying the default
\* snapshot it copied
C18_Witness ==
    /\ t_pc = "no_camera"
    /\ m_pc = "apply"
    /\ current_aruco_data = ArucoDataInit
    /\ current_aruco_data.distance_to_cam = 1500

\* C19 (sensitivities stay positive): after any sequence of calls of the
\* three calibrations, with zero and negative arguments among them,
\* position_sensitivity, distance_sensitivity and roll_sensitivity are all
\* greater than 0.
C19_SensitivitiesPositive ==
    /\ qw.position_sensitivity > 0
    /\ qw.distance_sensitivity > 0
    /\ qw.roll_sensitivity > 0

\* each calibration was last called with an argument at or below its floor
\* and left the floor: 0.1, 0.01 and 0.1
C19_Witness ==
    /\ qw.position_sensitivity = SensScale \div 10
    /\ qw.distance_sensitivity = SensScale \div 100
    /\ qw.roll_sensitivity = SensScale \div 10

\* C20 (rejected reload): force_reload, and start_reload behind it, called
\* while is_reloading is true or while current_ammo equals max_ammo returns
\* False and leaves the weapon system and its reload animation as they
\* were: is_reloading, reload_start_time, current_ammo, and the animation's
\* start_time and original_quaternion among them.
C20_RejectedReload ==
    (returned # <<>> /\ returned.op = "force_reload"
         /\ (returned.ws.is_reloading \/ returned.ws.current_ammo = returned.ws.max_ammo)) =>
        /\ returned.result = FALSE
        /\ ws.is_reloading = returned.ws.is_reloading
        /\ ws.reload_start_time = returned.ws.reload_start_time
        /\ ws.current_ammo = returned.ws.current_ammo
        /\ anim.start_time = returned.anim.start_time
        /\ anim.original_quaternion = returned.anim.original_quaternion
        /\ ws = returned.ws
        /\ anim = returned.anim
        /\ \A ts \in Clock(2) :
               start_reload(ws, anim, qw.quaternion, ts, 1)
                   = [ws |-> ws, anim |-> anim, result |-> FALSE]

\* R was pressed during a reload, later than the tick the reload started in
C20_Witness ==
    /\ returned # <<>>
    /\ returned.op = "force_reload"
    /\ returned.ws.is_reloading
    /\ returned.ws.current_ammo < returned.ws.max_ammo
    /\ now > returned.ws.reload_start_time
    /\ returned.result = FALSE

\* C21 (shoot): WeaponSystem.shoot returns True exactly when, at the clock
\* it reads, the weapon is not reloading, has a round left and fire_rate has
\* passed since last_shot_time; it then takes exactly one round.  In every
\* other case it returns False and current_ammo, last_shot_time and
\* is_reloading are as before the call.
C21_ShootGuard ==
    (returned # <<>> /\ returned.op = "shoot") =>
        LET before == returned.ws
            ok     == /\ ~before.is_reloading
                      /\ before.current_ammo > 0
                      /\ returned.ts[1] - before.last_shot_time >= before.fire_rate
        IN  /\ returned.result = ok
            /\ ok => /\ ws.current_ammo = before.current_ammo - 1
                     /\ ws.last_shot_time = returned.ts[2]
            /\ ~ok => /\ ws.current_ammo = before.current_ammo
                      /\ ws.last_shot_time = before.last_shot_time
                      /\ ws.is_reloading = before.is_reloading
                      /\ ws = before

\* a shot was refused because fire_rate had not passed since the last one
C21_Witness ==
    /\ returned # <<>>
    /\ returned.op = "shoot"
    /\ ~returned.result
    /\ ~returned.ws.is_reloading
    /\ returned.ws.current_ammo > 0
    /\ returned.ws.current_ammo < returned.ws.max_ammo
    /\ ws = returned.ws

\* C22 (ammo range): whatever sequence of shoot, start_reload, force_reload
\* and update calls is made, current_ammo stays within 0 .. max_ammo and an
\* empty magazine is being reloaded.
C22_AmmoRange ==
    /\ ws.max_ammo >= 1
    /\ 0 <= ws.current_ammo
    /\ ws.current_ammo <= ws.max_ammo
    /\ ws.current_ammo = 0 => ws.is_reloading

\* the last round has just been fired
C22_Witness ==
    /\ returned # <<>>
    /\ returned.op = "shoot"
    /\ returned.result
    /\ returned.ws.current_ammo = 1
    /\ ws.current_ammo = 0
    /\ ws.is_reloading

\* C23 (reload shown with its animation): after every WeaponSystem.update()
\* call, a weapon that is still reloading has an active reload animation.
C23_ReloadingHasAnimation ==
    (returned # <<>> /\ returned.op = "update") =>
        (ws.is_reloading => anim.is_active)

\* an update one tick before the reload completes
C23_Witness ==
    /\ returned # <<>>
    /\ returned.op = "update"
    /\ ws.is_reloading
    /\ anim.is_active
    /\ returned.ts[2] - ws.reload_start_time = ws.reload_time - 1
    /\ anim.start_time > ws.reload_start_time

\* C24 (reload completes): while update() keeps being called and time
\* passes, a weapon that is reloading is later not reloading and full; and
\* current_ammo grows only in a step that ends a reload, taken at a clock
\* reading at least reload_time after reload_start_time, and then to
\* max_ammo.
C24_ReloadCompletes ==
    /\ ws.is_reloading ~> (~ws.is_reloading /\ ws.current_ammo = ws.max_ammo)
    /\ [][ (ws'.current_ammo > ws.current_ammo \/ (ws.is_reloading /\ ~ws'.is_reloading)) =>
             /\ ws.is_reloading
             /\ ~ws'.is_reloading
             /\ ws'.current_ammo = ws.max_ammo
             /\ now' - ws.reload_start_time >= ws.reload_time ]_vars

\* an update has just refilled an empty magazine
C24_Witness ==
    /\ returned # <<>>
    /\ returned.op = "update"
    /\ returned.ws.is_reloading
    /\ returned.ws.current_ammo = 0
    /\ returned.ts[1] - returned.ws.reload_start_time < returned.ws.reload_time
    /\ ~ws.is_reloading
    /\ ws.current_ammo = ws.max_ammo

\* C25 (pose frozen during a reload): a Game.update frame that finds the
\* weapon reloading after weapon_system.update() leaves the weapon's pose
\* (weapon_offset, yaw_angle, roll_angle, cursor_world_pos, quaternion and
\* every other field of quaternion_weapon) as it was before the frame.
C25_PoseFrozen ==
    (returned # <<>> /\ returned.op = "Game.update" /\ returned.is_reloading) =>
        qw = returned.before

\* a frame during a reload whose snapshot would have moved the weapon
C25_Witness ==
    /\ returned # <<>>
    /\ returned.op = "Game.update"
    /\ returned.is_reloading
    /\ ws.is_reloading
    /\ calculate_weapon_orientation(update_full_aruco_data(returned.before, returned.cur)) # qw

\* C26 (edge-triggered gestures): a Game.update frame calls shoot, and
\* likewise force_reload, only if the flag is set in the snapshot the frame
\* read; when an earlier frame read a snapshot, the call is made exactly
\* when the flag is set now and was clear in the snapshot of the previous
\* frame, so a flag that stays set triggers once.
C26_EdgeTriggered ==
    (returned # <<>> /\ returned.op = "Game.update") =>
        /\ returned.called.shoot => returned.cur.shooting
        /\ returned.called.force_reload => returned.cur.reloading
        /\ returned.previous # <<>> =>
             /\ returned.called.shoot =
                  (returned.cur.shooting /\ ~returned.previous.shooting)
             /\ returned.called.force_reload =
                  (returned.cur.reloading /\ ~returned.previous.reloading)

\* both flags stayed set from one frame to the next, with a round to fire
C26_Witness ==
    /\ returned # <<>>
    /\ returned.op = "Game.update"
    /\ returned.previous # <<>>
    /\ returned.previous.shooting
    /\ returned.previous.reloading
    /\ returned.cur.shooting
    /\ returned.cur.reloading
    /\ ~returned.called.shoot
    /\ ~returned.called.force_reload
    /\ ~ws.is_reloading
    /\ ws.current_ammo > 0
    /\ ws.current_ammo < ws.max_ammo

\* C27 (shooting pulse): in any window of 5 consecutive frames processed by
\* the tracking loop, with or without a marker in them, estimator.shooting
\* is set at the end of at most one frame.
C27_Original ==
    (returned # <<>> /\ returned.op = "frames") =>
        Cardinality({i \in 1..Len(returned.shooting) : returned.shooting[i]}) <= 1

\* C28 (phase of the arm): in every non-null result of get_arm_segments the
\* 'phase' field is the phase get_target_hand_position read for the anchors
\* of the wrist target, also when the clock advances between the reads of
\* the call.
C28_Original ==
    (returned # <<>> /\ returned.op = "get_arm_segments" /\ returned.result # NoneArm) =>
        returned.result.phase = get_current_phase(returned.a, returned.ts[2])

\* C29 (continuous hand target): for the weapon position of the call, the
\* hand target at the end of each of reach_in, contact, pull_back and
\* release (phase progress 1) is the point where the next phase starts
\* (phase progress 0).
C29_ContinuousTarget ==
    (returned # <<>> /\ returned.op = "get_arm_segments") =>
        \A k \in 2..5 :
            LET ending   == hand_anchors(Phases[k], returned.arg)
                starting == hand_anchors(Phases[k + 1], returned.arg)
            IN  /\ ending # NoneV
                /\ starting # NoneV
                /\ ending[2] = starting[1]
                /\ Lerp3(ending[1], ending[2], ease_in_out(ProgressScale))
                     = Lerp3(starting[1], starting[2], ease_in_out(0))

\* the hand target is asked for at the very end of pull_back, and is where
\* release starts
C29_Witness ==
    /\ returned # <<>>
    /\ returned.op = "get_arm_segments"
    /\ returned.result # NoneArm
    /\ get_current_phase(returned.a, returned.ts[2]) = "pull_back"
    /\ get_phase_progress(returned.a, "pull_back", returned.ts[3]) = ProgressScale
    /\ get_target_hand_position(returned.a, returned.arg, returned.ts, 2)
         = hand_anchors("release", returned.arg)[1]

\* C30 (no shot lost in the handoff): under every interleaving of the two
\* threads, a published snapshot with shooting set is copied by the main
\* loop before a later publication replaces it.
C30_Original == ~handoff.lost

============================================================================
